---------------------------- MODULE Spec2Model ----------------------------
(***************************************************************************)
(* A model of the tool dispatch and provisioning engine of the toolchain   *)
(* manager (nemo / notion / jetson / volta): the layout, Image::path,      *)
(* Session::current_platform, shim dispatch (Binary::new), platform        *)
(* checkout, and the distribution engine (PackageDistro, YarnDistro).      *)
(*                                                                         *)
(* The module holds several specifications over one set of variables.     *)
(* Each specification drives one group of variables and leaves the others *)
(* at their idle value:                                                    *)
(*   SpecPath      Image::path() over every Image and every PATH           *)
(*   SpecPlatform  Session::current_platform over every project/user pin   *)
(*   SpecShim      a shim invocation: dispatch, checkout, path, spawn      *)
(*   SpecFetch     the distribution engine on a shared disk, with crashes  *)
(*   SpecPackages  package installs and uninstalls, with crashes           *)
(*   SpecConcurrent  two sessions installing different packages            *)
(*   SpecResolve   a semver range resolved against a package index         *)
(*   SpecHooks     the merge of the hooks files                            *)
(*   SpecDiscovery Project::for_dir from every directory                   *)
(*   SpecPin       the pin command and the rewrite of package.json         *)
(*   SpecEnsure    the ensure calls of one session                         *)
(*   SpecDirs      ensure_jetson_dirs_exist on every file system           *)
(***************************************************************************)
EXTENDS Integers, Sequences, FiniteSets, TLC

VARIABLES
    \* ---- Image::path (SpecPath) ----
    image,          \* the Image whose path() is taken, or None
    old_path,       \* the PATH of the environment, a sequence of entries
    new_path,       \* the result of Image::path(), or Pending before the call
    \* ---- Session::current_platform (SpecPlatform) ----
    project,        \* the session's project: None, or [platform |-> pin or None]
    toolchain,      \* the user default platform (toolchain.platform_ref()), or None
    current,        \* the result of current_platform(), or Pending
    \* ---- a shim invocation (SpecShim) ----
    sh_name,        \* arg0: the name the shim was invoked under
    direct_bins,    \* names in the project's direct-dependency bin map
    bin_configs,    \* tools/user/bins/<bin>.json: bin name -> BinConfig or None
    inventory,      \* the session's inventory: [node, yarn : sets of versions]
    node_images,    \* existing directories tools/image/node/<node>/<npm>
    yarn_images,    \* existing directories tools/image/yarn/<version>
    pc,             \* the position of the invocation
    events,         \* the calls completed so far, in order
    sh_image,       \* the Image checkout returned, or None
    sh_cmd,         \* the command built for the child, or None
    sh_err,         \* the error the invocation failed with, or ""
    child_status,   \* the ExitStatus of the child, or Pending
    event_log,      \* the events added to the session's event log, in order
    exit_code,      \* the code the shim process exited with, or Pending
    \* ---- the distribution engine on disk (SpecFetch) ----
    pkg_tarball,    \* tools/inventory/packages/<name>-<version>.tgz: its content
    pkg_shasum,     \* tools/inventory/packages/<name>-<version>.shasum, or None
    pkg_image,      \* tools/image/packages/<name>/<version>: state of the directory
    pkg_config,     \* tools/user/packages/<name>.json: PackageConfig or None
    shims,          \* the names that have a shim in the shim directory
    yarn_tarball,   \* tools/inventory/yarn/yarn-v<version>.tar.gz: its content
    yarn_shasum,    \* a shasum sidecar next to the yarn tarball, or None
    yarn_image,     \* tools/image/yarn/<version>: state of the directory
    tmp_left,       \* temp directories left behind under tmp
    commands,       \* the number of commands started so far
    sess,           \* per session: the position and locals of its command
    \* ---- resolving a semver range (SpecResolve) ----
    matching,       \* the requirement to resolve, or None
    raw_versions,   \* the versions of the registry document, in iteration order
    index,          \* the PackageIndex entries built from it, or Pending
    resolved,       \* the result of the resolution, or Pending
    \* ---- the hook configuration (SpecHooks) ----
    hook_sources,   \* the hooks files in precedence order
    hooks,          \* the configuration merged so far, or None
    hooks_read,     \* the number of sources merged so far
    \* ---- project discovery (SpecDiscovery) ----
    base_dir,       \* the directory the discovery starts from
    package_jsons,  \* the directories that contain a package.json file
    dir,            \* the directory the walk has reached
    for_dir,        \* the result of Project::for_dir, or Pending
    \* ---- the pin command (SpecPin) ----
    package_json,   \* the project's package.json file: its content
    original_json,  \* the content of package.json when the command started
    pin_tool,       \* the tool named on the command line
    pin_version,    \* the version the command resolved for it
    pin_pc,         \* the position of the command
    pin_err,        \* the error the command failed with, or ""
    pin_exit,       \* the code the process exited with, or Pending
    \* ---- the ensure calls of one session (SpecEnsure) ----
    en_images,      \* per tool, the versions whose image directory is populated
    en_inventory,   \* the session's inventory: per tool, a set of versions
    en_log,         \* the ensure calls made so far and what each of them did
    \* ---- the directories of the layout (SpecDirs) ----
    fs_dirs,        \* the directories that exist at or below the home directory
    dirs_step,      \* the position in ensure_jetson_dirs_exist
    dirs_result,    \* what ensure_jetson_dirs_exist returned, or Pending
    dirs_runs       \* the number of commands run so far

\* Option::None; Some(x) is x itself.  Pending marks a result not yet produced.
None == << >>
Pending == [ done |-> FALSE ]
Done(v) == [ done |-> TRUE, value |-> v ]

\* the files of the layout, and the variables of the distribution engine
varsDisk == << pkg_tarball, pkg_shasum, pkg_image, pkg_config, bin_configs,
               shims, yarn_tarball, yarn_shasum, yarn_image, tmp_left >>
varsFetch == << varsDisk, commands, sess >>

\* how a shim invocation ends
varsExit == << child_status, event_log, exit_code >>

\* the variables of the calls of pure functions
varsResolve == << matching, raw_versions, index, resolved >>
varsHooks == << hook_sources, hooks, hooks_read >>
varsDiscovery == << base_dir, package_jsons, dir, for_dir >>
varsPin == << package_json, original_json, pin_tool, pin_version, pin_pc,
             pin_err, pin_exit >>
varsEnsure == << en_images, en_inventory, en_log >>
varsDirs == << fs_dirs, dirs_step, dirs_result, dirs_runs >>
varsCommands == << varsPin, varsEnsure, varsDirs >>
varsCalls == << varsResolve, varsHooks, varsDiscovery, varsCommands >>

(***************************************************************************)
(* Versions are semver triples; Version::to_string renders them.           *)
(***************************************************************************)
VersionStr(v) == ToString(v[1]) \o "." \o ToString(v[2]) \o "." \o ToString(v[3])

NodeVersions == { <<8, 9, 10>>, <<10, 2, 1>> }
NpmVersions  == { <<5, 6, 0>>, <<6, 4, 3>> }
YarnVersions == { <<1, 7, 71>>, <<1, 9, 2>> }

Opt(S) == S \cup {None}

(***************************************************************************)
(* The layout: paths are sequences of components below the file system    *)
(* root; Home is the layout root.                                          *)
(***************************************************************************)
Home == << "home", ".volta" >>

tools_dir == Home \o << "tools" >>
image_dir == tools_dir \o << "image" >>
node_image_root_dir == image_dir \o << "node" >>
node_image_dir(node, npm) == node_image_root_dir \o << node, npm >>
node_image_bin_dir(node, npm) == node_image_dir(node, npm) \o << "bin" >>
yarn_image_root_dir == image_dir \o << "yarn" >>
yarn_image_dir(version) == yarn_image_root_dir \o << version >>
yarn_image_bin_dir(version) == yarn_image_dir(version) \o << "bin" >>
shim_dir == Home \o << "bin" >>
env_paths == << shim_dir >>

(***************************************************************************)
(* Image::path                                                             *)
(***************************************************************************)
Images == [ node : [ runtime : NodeVersions, npm : NpmVersions ],
            yarn : Opt(YarnVersions) ]

\* The entries a PATH is drawn from: system directories, the shim directory,
\* and image bin directories left there by an enclosing invocation.
PathEntries ==
    { << "usr", "bin" >>, << "blah" >>, shim_dir,
      yarn_image_bin_dir(VersionStr(<<1, 9, 2>>)) }

MaxPathLen == 3

Paths == UNION { [ 1..n -> PathEntries ] : n \in 0..MaxPathLen }

\* Image::bins
bins(img) ==
    LET node_str == VersionStr(img.node.runtime)
        npm_str  == VersionStr(img.node.npm)
    IN  << node_image_bin_dir(node_str, npm_str) >>
        \o (IF img.yarn # None
               THEN << yarn_image_bin_dir(VersionStr(img.yarn)) >>
               ELSE << >>)

\* envoy's PathSplit::remove: every entry equal to the removed path goes.
remove(paths, remove_path) == SelectSeq(paths, LAMBDA p : p # remove_path)

\* the loop `for remove_path in env_paths()? { new_path = new_path.remove(..) }`
RECURSIVE remove_all(_, _)
remove_all(paths, removals) ==
    IF removals = << >> THEN paths
    ELSE remove_all(remove(paths, Head(removals)), Tail(removals))

\* envoy's PathSplit::prefix: the given entries go in front, in their order.
prefix(paths, front) == front \o paths

\* A plausible slip: the image directories are appended instead of prefixed.
path_appends(img, env) == remove_all(env, env_paths) \o bins(img)

\* Image::path
path(img, env) == prefix(remove_all(env, env_paths), bins(img))

InitPath ==
    /\ image \in Images
    /\ old_path \in Paths
    /\ new_path = Pending

IdlePath == image = None /\ old_path = << >> /\ new_path = Pending

varsPath == << image, old_path, new_path >>

CallPath ==
    /\ image # None
    /\ new_path = Pending
    /\ new_path' = Done(path(image, old_path))
    /\ UNCHANGED << image, old_path >>

(***************************************************************************)
(* Session::current_platform                                               *)
(***************************************************************************)
PlatformSpecs == [ node_runtime : NodeVersions,
                   npm : Opt(NpmVersions),
                   yarn : Opt(YarnVersions) ]

Projects == Opt([ platform : Opt(PlatformSpecs) ])

\* Session::project_platform
project_platform(proj) == IF proj # None THEN proj.platform ELSE None

\* Session::user_platform
user_platform(tc) == tc

\* A plausible slip: the merge takes npm from the user default as well.
current_platform_merges_npm(proj, tc) ==
    LET platform == project_platform(proj) IN
    IF platform # None
    THEN IF platform.yarn # None
         THEN [ source |-> "project", platform |-> platform ]
         ELSE [ source |-> "merged",
                platform |->
                  [ node_runtime |-> platform.node_runtime,
                    npm  |-> IF user_platform(tc) # None
                                THEN user_platform(tc).npm ELSE platform.npm,
                    yarn |-> IF user_platform(tc) # None
                                THEN user_platform(tc).yarn ELSE None ] ]
    ELSE IF user_platform(tc) # None
         THEN [ source |-> "default", platform |-> user_platform(tc) ]
         ELSE None

\* Session::current_platform
current_platform(proj, tc) ==
    LET platform == project_platform(proj) IN
    IF platform # None
    THEN IF platform.yarn # None
         THEN [ source |-> "project", platform |-> platform ]
         ELSE LET user_yarn == IF user_platform(tc) # None
                                  THEN user_platform(tc).yarn ELSE None
              IN  [ source |-> "merged",
                    platform |-> [ node_runtime |-> platform.node_runtime,
                                   npm  |-> platform.npm,
                                   yarn |-> user_yarn ] ]
    ELSE IF user_platform(tc) # None
         THEN [ source |-> "default", platform |-> user_platform(tc) ]
         ELSE None

InitPlatform ==
    /\ project \in Projects
    /\ toolchain \in Opt(PlatformSpecs)
    /\ current = Pending

IdlePlatform == project = None /\ toolchain = None /\ current = Pending

varsPlatform == << project, toolchain, current >>

CallCurrentPlatform ==
    /\ current = Pending
    /\ current' = Done(current_platform(project, toolchain))
    /\ UNCHANGED << project, toolchain >>


(***************************************************************************)
(* A shim invocation: dispatch on the invocation name, platform checkout,  *)
(* Image::path, and the spawn of the child.                                *)
(***************************************************************************)
\* the npm bundled with a Node version (NodeEntry.npm of the index)
bundled_npm(node) == IF node = <<10, 2, 1>> THEN <<5, 6, 0>> ELSE <<5, 5, 1>>

\* semver's ordering of versions, as `*image.npm() >= required_npm` uses it
VersionGE(a, b) ==
    \/ a[1] > b[1]
    \/ a[1] = b[1] /\ a[2] > b[2]
    \/ a[1] = b[1] /\ a[2] = b[2] /\ a[3] >= b[3]

required_npm == <<5, 2, 0>>

\* The platforms a project pin or the user default is drawn from.
ShimPlatforms ==
    { [ node_runtime |-> <<10, 2, 1>>, npm |-> None,        yarn |-> None ],
      [ node_runtime |-> <<10, 2, 1>>, npm |-> <<5, 6, 0>>, yarn |-> None ],
      [ node_runtime |-> <<10, 2, 1>>, npm |-> <<6, 4, 3>>, yarn |-> <<1, 9, 2>> ],
      [ node_runtime |-> <<8, 9, 10>>, npm |-> None,        yarn |-> <<1, 7, 71>> ],
      [ node_runtime |-> <<8, 9, 10>>, npm |-> <<5, 1, 0>>, yarn |-> None ] }

RuntimeShims == { "node", "npm", "npx", "yarn" }
ShimNames == { "npx", "eslint", "tsc" }
BinNames == { "eslint", "tsc" }

ProjectRoot == << "work", "project" >>
\* Project::local_bin_dir
local_bin_dir == ProjectRoot \o << "node_modules", ".bin" >>
\* path::node_version_3p_bin_dir of the Binary::new fallback
node_version_3p_bin_dir(node_str) == << "node", node_str, "3p_bin" >>
package_image_root_dir == image_dir \o << "packages" >>
package_image_dir(name, version) == package_image_root_dir \o << name, version >>

\* the BinConfig records the user-bin directory may hold at the start
TscConfig == [ name |-> "tsc", package |-> "typescript", version |-> <<3, 0, 3>>,
               path |-> "bin/tsc",
               platform |-> [ node_runtime |-> <<8, 9, 10>>, npm |-> None,
                              yarn |-> None ] ]
EslintConfig == [ name |-> "eslint", package |-> "eslint", version |-> <<5, 0, 1>>,
                  path |-> "bin/eslint.js",
                  platform |-> [ node_runtime |-> <<8, 9, 10>>, npm |-> None,
                                 yarn |-> None ] ]
NoBinConfigs == [ b \in BinNames |-> None ]

ShimEnvPath == << shim_dir, << "usr", "bin" >> >>

varsInvocation == << sh_name, direct_bins, inventory, node_images,
                     yarn_images, pc, events, sh_image, sh_cmd, sh_err, varsExit >>
varsShim == << varsInvocation, bin_configs >>

\* The inventory as the session scans it from disk: the versions whose image
\* directory is populated.
scan_inventory(nodes, yarns) ==
    [ node |-> { d[1] : d \in nodes }, yarn |-> yarns ]

InitShim ==
    /\ sh_name \in ShimNames
    /\ project \in Opt([ platform : Opt(ShimPlatforms) ])
    /\ toolchain \in Opt(ShimPlatforms)
    /\ current = Pending
    /\ direct_bins \in { {}, { "eslint" } }
    /\ (project = None => direct_bins = {})
    /\ bin_configs \in { NoBinConfigs,
                         [ NoBinConfigs EXCEPT !["tsc"] = TscConfig ],
                         [ NoBinConfigs EXCEPT !["tsc"] = TscConfig,
                                               !["eslint"] = EslintConfig ] }
    /\ node_images \in SUBSET { << v, bundled_npm(v) >> : v \in NodeVersions }
    /\ yarn_images \in SUBSET YarnVersions
    /\ inventory = scan_inventory(node_images, yarn_images)
    /\ pc = "start"
    /\ events = << >>
    /\ sh_image = None
    /\ sh_cmd = None
    /\ sh_err = ""
    /\ child_status = Pending
    /\ event_log = << [ kind |-> "start" ] >>
    /\ exit_code = Pending
    /\ image = None /\ old_path = ShimEnvPath /\ new_path = Pending

IdleInvocation ==
    /\ sh_name = "" /\ direct_bins = {}
    /\ inventory = scan_inventory({}, {}) /\ node_images = {} /\ yarn_images = {}
    /\ pc = "idle" /\ events = << >> /\ sh_image = None /\ sh_cmd = None
    /\ sh_err = ""
    /\ child_status = Pending /\ event_log = << >> /\ exit_code = Pending

IdleShim == IdleInvocation /\ bin_configs = NoBinConfigs

\* run/npx.rs command(): session.current_platform()
NpxCurrentPlatform ==
    /\ pc = "start"
    /\ sh_name = "npx"
    /\ current' = Done(current_platform(project, toolchain))
    /\ pc' = IF current_platform(project, toolchain) = None
                THEN "passthrough" ELSE "ensure_node"
    /\ UNCHANGED << varsCalls, varsFetch, varsExit, project, toolchain, varsPath, sh_name,
                    direct_bins,
                    bin_configs, inventory, node_images, yarn_images, events,
                    sh_image, sh_cmd, sh_err >>

\* Node::fetch_internal: on success the image directory of the version and
\* its bundled npm exists and the version is in the inventory.
node_fetch_images(images, version) == images \cup { << version, bundled_npm(version) >> }

\* PlatformSpec::checkout, first statement: session.ensure_node(&self.node_runtime)?
EnsureNode ==
    /\ pc = "ensure_node"
    /\ LET version == current.value.platform.node_runtime
           next == IF current.value.platform.yarn # None
                      THEN "ensure_yarn" ELSE "checkout_return"
       IN  IF version \in inventory.node
           THEN /\ pc' = next
                /\ events' = Append(events, "ensure_node")
                /\ UNCHANGED << inventory, node_images, sh_err >>
           ELSE \E fetched \in BOOLEAN :
                  IF fetched
                  THEN /\ node_images' = node_fetch_images(node_images, version)
                       /\ inventory' = [ inventory EXCEPT !.node = @ \cup { version } ]
                       /\ pc' = next
                       /\ events' = Append(events, "ensure_node")
                       /\ UNCHANGED sh_err
                  ELSE /\ pc' = "failed"
                       /\ sh_err' = "DownloadToolNetworkError"
                       /\ events' = Append(events, "ensure_node_failed")
                       /\ UNCHANGED << inventory, node_images >>
    /\ UNCHANGED << varsCalls, varsFetch, varsExit, varsPlatform, varsPath, sh_name, direct_bins,
                    bin_configs,
                    yarn_images, sh_image, sh_cmd >>

\* PlatformSpec::checkout: if let Some(yarn_version) = self.yarn
\*                             { session.ensure_yarn(yarn_version)?; }
EnsureYarn ==
    /\ pc = "ensure_yarn"
    /\ LET version == current.value.platform.yarn
       IN  IF version \in inventory.yarn
           THEN /\ pc' = "checkout_return"
                /\ events' = Append(events, "ensure_yarn")
                /\ UNCHANGED << inventory, yarn_images, sh_err >>
           ELSE \E fetched \in BOOLEAN :
                  IF fetched
                  THEN /\ yarn_images' = yarn_images \cup { version }
                       /\ inventory' = [ inventory EXCEPT !.yarn = @ \cup { version } ]
                       /\ pc' = "checkout_return"
                       /\ events' = Append(events, "ensure_yarn")
                       /\ UNCHANGED sh_err
                  ELSE /\ pc' = "failed"
                       /\ sh_err' = "DownloadToolNetworkError"
                       /\ events' = Append(events, "ensure_yarn_failed")
                       /\ UNCHANGED << inventory, yarn_images >>
    /\ UNCHANGED << varsCalls, varsFetch, varsExit, varsPlatform, varsPath, sh_name, direct_bins,
                    bin_configs,
                    node_images, sh_image, sh_cmd >>

\* load_default_npm_version: the npm bundled with the fetched Node version
load_default_npm_version(node) == bundled_npm(node)

\* PlatformSpec::checkout: the Image it returns
checkout_image(spec) ==
    [ node |-> [ runtime |-> spec.node_runtime,
                 npm |-> IF spec.npm # None THEN spec.npm
                         ELSE load_default_npm_version(spec.node_runtime) ],
      yarn |-> spec.yarn ]

CheckoutReturn ==
    /\ pc = "checkout_return"
    /\ sh_image' = checkout_image(current.value.platform)
    /\ events' = Append(events, "checkout")
    /\ pc' = "npx_image"
    /\ UNCHANGED << varsCalls, varsFetch, varsExit, varsPlatform, varsPath, sh_name, direct_bins,
                    bin_configs,
                    inventory, node_images, yarn_images, sh_cmd, sh_err >>

\* run/npx.rs command(): the npm check, image.path() and ToolCommand::direct
NpxBuild ==
    /\ pc = "npx_image"
    /\ IF VersionGE(sh_image.node.npm, required_npm)
       THEN /\ sh_cmd' = [ exe |-> << "npx" >>,
                           path_of |-> current.value.platform,
                           path |-> path(sh_image, old_path) ]
            /\ events' = Append(events, "path")
            /\ pc' = "built"
            /\ UNCHANGED sh_err
       ELSE /\ sh_err' = "NpxNotAvailable"
            /\ pc' = "failed"
            /\ UNCHANGED << sh_cmd, events >>
    /\ UNCHANGED << varsCalls, varsFetch, varsExit, varsPlatform, varsPath, sh_name, direct_bins,
                    bin_configs,
                    inventory, node_images, yarn_images, sh_image >>

\* Project::has_direct_bin
has_direct_bin(exe) == exe \in direct_bins

\* Binary::new: the command it builds, or the error it throws
binary_new(exe) ==
    IF project # None /\ has_direct_bin(exe)
    THEN IF project_platform(project) # None
         THEN [ ok |-> TRUE, exe |-> local_bin_dir \o << exe >>,
                path_of |-> project_platform(project) ]
         ELSE IF user_platform(toolchain) # None
         THEN [ ok |-> TRUE, exe |-> local_bin_dir \o << exe >>,
                path_of |-> user_platform(toolchain) ]
         ELSE [ ok |-> FALSE, err |-> "NoSuchToolError" ]
    ELSE IF user_platform(toolchain) # None
         THEN [ ok |-> TRUE,
                exe |-> node_version_3p_bin_dir(
                            VersionStr(user_platform(toolchain).node_runtime))
                        \o << exe >>,
                path_of |-> user_platform(toolchain) ]
         ELSE [ ok |-> FALSE, err |-> "NoToolChainError" ]

\* Tool::launch for a Binary: Self::new(&mut session), in which platform.path()
\* is taken on the pinned platform as read from the manifest or platform file
\* (the PATH it yields is that of the image the platform names).
BinaryNew ==
    /\ pc = "start"
    /\ sh_name \notin RuntimeShims
    /\ LET r == binary_new(sh_name) IN
       IF r.ok
       THEN /\ sh_cmd' = [ exe |-> r.exe, path_of |-> r.path_of,
                           path |-> path(checkout_image(r.path_of), old_path) ]
            /\ events' = Append(events, "path")
            /\ pc' = "built"
            /\ UNCHANGED sh_err
       ELSE /\ sh_err' = r.err
            /\ pc' = "failed"
            /\ UNCHANGED << sh_cmd, events >>
    /\ UNCHANGED << varsCalls, varsFetch, varsExit, varsPlatform, varsPath, sh_name, direct_bins,
                    bin_configs,
                    inventory, node_images, yarn_images, sh_image >>

\* Tool::exec / shim main: command.status() spawns the child
Spawn ==
    /\ pc = "built"
    /\ events' = Append(events, "spawn")
    /\ pc' = "running"
    /\ UNCHANGED << varsCalls, varsFetch, varsExit, varsPlatform, varsPath, sh_name, direct_bins,
                    bin_configs,
                    inventory, node_images, yarn_images, sh_image, sh_cmd, sh_err >>

\* command.status() fails to start the child: BinaryExecError
SpawnFails ==
    /\ pc = "built"
    /\ sh_err' = "BinaryExecError"
    /\ pc' = "failed"
    /\ UNCHANGED << varsCalls, varsFetch, varsExit, varsPlatform, varsPath, sh_name,
                    direct_bins, bin_configs, inventory, node_images, yarn_images,
                    events, sh_image, sh_cmd >>

\* the ExitStatus values of a child: exited with a code, or ended by a signal
\* (status.code() is then None)
ChildCodes == { 0, 1, 3 }
ChildStatuses ==
    { [ exited |-> TRUE, code |-> c ] : c \in ChildCodes }
    \cup { [ exited |-> FALSE, code |-> -1 ] }

\* ExitStatus::success
success(status) == status.exited /\ status.code = 0

\* ExitCode::Success, ExitCode::ExecutionFailure
Success == 0
ExecutionFailure == 126
InvalidArguments == 3
NoVersionMatch == 4
NetworkError == 5
ConfigurationError == 8
ExecutableNotFound == 127

\* NotionFail::exit_code / ErrorDetails::exit_code: the code each error kind
\* declares for itself
error_exit_code(err) ==
    CASE err = "DownloadToolNetworkError" -> NetworkError
      [] err = "NpxNotAvailable"          -> ExecutableNotFound
      [] err = "NoSuchToolError"          -> NoVersionMatch
      [] err = "NoToolChainError"         -> ExecutionFailure
      [] err = "BinaryExecError"          -> ExecutionFailure
      [] err = "NoPinnedNodeVersion"      -> ConfigurationError
      [] err = "CannotPinPackage"         -> InvalidArguments

\* (a plausible slip: every failure of the child is reported as 1)
tool_exit_code_flat(status) == 1

\* status.code().unwrap_or(1)
tool_exit_code(status) == IF status.exited THEN status.code ELSE 1

\* command.status() returns Ok(status): the child has ended
ChildEnds ==
    /\ pc = "running"
    /\ \E status \in ChildStatuses : child_status' = Done(status)
    /\ pc' = "status"
    /\ UNCHANGED << varsCalls, varsFetch, event_log, exit_code, varsPlatform, varsPath,
                    sh_name, direct_bins, bin_configs, inventory, node_images,
                    yarn_images, events, sh_image, sh_cmd, sh_err >>

\* Ok(status): session.add_event_end(Tool, Success), or
\* session.add_event_tool_end(Tool, code)
MainAddEventEnd ==
    /\ pc = "status"
    /\ event_log' = Append(event_log,
                      IF success(child_status.value)
                      THEN [ kind |-> "end", exit_code |-> Success ]
                      ELSE [ kind |-> "tool_end",
                             exit_code |-> tool_exit_code(child_status.value) ])
    /\ pc' = "exit"
    /\ UNCHANGED << varsCalls, varsFetch, child_status, exit_code, varsPlatform,
                    varsPath, sh_name, direct_bins, bin_configs, inventory,
                    node_images, yarn_images, events, sh_image, sh_cmd, sh_err >>

\* session.exit(ExitCode::Success), or session.exit_tool(code)
MainExit ==
    /\ pc = "exit"
    /\ exit_code' = Done(IF success(child_status.value) THEN Success
                         ELSE tool_exit_code(child_status.value))
    /\ pc' = "exited"
    /\ UNCHANGED << varsCalls, varsFetch, child_status, event_log, varsPlatform,
                    varsPath, sh_name, direct_bins, bin_configs, inventory,
                    node_images, yarn_images, events, sh_image, sh_cmd, sh_err >>

\* Err(err): the error is reported and session.add_event_error(Tool, &err)
MainAddEventError ==
    /\ pc = "failed"
    /\ event_log' = Append(event_log, [ kind |-> "error", error |-> sh_err ])
    /\ pc' = "exit_error"
    /\ UNCHANGED << varsCalls, varsFetch, child_status, exit_code, varsPlatform,
                    varsPath, sh_name, direct_bins, bin_configs, inventory,
                    node_images, yarn_images, events, sh_image, sh_cmd, sh_err >>

\* session.exit(ExitCode::ExecutionFailure)
MainExitError ==
    /\ pc = "exit_error"
    /\ exit_code' = Done(ExecutionFailure)
    /\ pc' = "exited"
    /\ UNCHANGED << varsCalls, varsFetch, child_status, event_log, varsPlatform,
                    varsPath, sh_name, direct_bins, bin_configs, inventory,
                    node_images, yarn_images, events, sh_image, sh_cmd, sh_err >>

(***************************************************************************)
(* The distribution engine: PackageDistro::fetch, PackageVersion::install  *)
(* and YarnDistro::fetch, step by step over the files of the layout, with  *)
(* a session that can be interrupted between any two steps                 *)
(***************************************************************************)
Sessions == { "s1", "s2" }

Packages == { "cowsay", "moo" }
PkgDistros == { << "cowsay", <<1, 4, 0>> >>, << "cowsay", <<1, 5, 0>> >>,
                << "moo", <<1, 0, 0>> >> }
FetchYarnVersions == { <<1, 7, 71>> }
PkgBinNames == { "cowsay", "cowthink" }

\* the commands a session can run, and the distro a command is about
PkgJobs == { [ tool |-> "package", name |-> d[1], version |-> d[2] ] : d \in PkgDistros }
YarnJobs == { [ tool |-> "yarn", name |-> "yarn", version |-> v ] : v \in FetchYarnVersions }
MaxCommands == 3

\* the "bin" map of the package.json in the unpacked package
manifest_bins(name, version) ==
    IF name = "cowsay"
    THEN (IF version = <<1, 4, 0>> THEN { "cowsay", "cowthink" } ELSE { "cowsay" })
    ELSE { "cowthink" }

\* Content of a tarball file: "absent", "partial" (created by a download whose
\* stream has not been read to the end), "published" (the bytes the registry
\* publishes) or "other" (complete, but different bytes).
sha1(content) == << "sha1", content >>
\* PackageDistro.shasum: the checksum in the registry entry of the version
registry_shasum == sha1("published")

\* everything on disk but the tmp directory
Disk ==
    [ pkg_tarball |-> pkg_tarball, pkg_shasum |-> pkg_shasum,
      pkg_image |-> pkg_image, pkg_config |-> pkg_config,
      bin_configs |-> bin_configs, shims |-> shims,
      yarn_tarball |-> yarn_tarball, yarn_shasum |-> yarn_shasum,
      yarn_image |-> yarn_image ]

\* the variables of the other operations
varsOther == << varsPath, varsPlatform, varsInvocation, varsCalls >>

IdleSession ==
    [ pc |-> "idle", job |-> None, temp |-> "none", archive |-> "none",
      net |-> FALSE, renamed |-> FALSE, snap |-> None, res |-> "",
      out |-> "", collection |-> {}, todo |-> {} ]

InitFetch ==
    /\ pkg_tarball = [ d \in PkgDistros |-> "absent" ]
    /\ pkg_shasum = [ d \in PkgDistros |-> None ]
    /\ pkg_image = [ d \in PkgDistros |-> "absent" ]
    /\ pkg_config = [ n \in Packages |-> None ]
    /\ bin_configs = [ b \in PkgBinNames |-> None ]
    /\ shims = {}
    \* the yarn inventory is empty, or holds a tarball with its sidecar
    /\ \E cached \in BOOLEAN :
          /\ yarn_tarball = [ v \in FetchYarnVersions |->
                                IF cached THEN "published" ELSE "absent" ]
          /\ yarn_shasum = [ v \in FetchYarnVersions |->
                                IF cached THEN sha1("published") ELSE None ]
    /\ yarn_image = [ v \in FetchYarnVersions |-> "absent" ]
    /\ tmp_left = 0
    /\ commands = 0
    /\ sess = [ s \in Sessions |-> IdleSession ]

IdleFetch ==
    /\ pkg_tarball = << >> /\ pkg_shasum = << >> /\ pkg_image = << >>
    /\ pkg_config = << >> /\ shims = {} /\ yarn_tarball = << >>
    /\ yarn_shasum = << >> /\ yarn_image = << >> /\ tmp_left = 0
    /\ commands = 0 /\ sess = << >>

\* the distro of the session's command
Distro(s) == << sess[s].job.name, sess[s].job.version >>

\* fetch returns r and the command ends: the TempDir is dropped, which deletes
\* the directory.  res is what fetch returned, out how the command ended.
Return(s, r) ==
    [ sess[s] EXCEPT !.pc = "idle", !.res = r, !.temp = "none",
                     !.out = IF r \in { "Installed", "Already", "Now" }
                             THEN "ok" ELSE "error" ]

\* the yarn collection of the inventory as a session loads it
yarn_collection == scan_inventory({}, { v \in FetchYarnVersions : yarn_image[v] = "whole" }).yarn

StartCommand(s) ==
    /\ sess[s].pc = "idle"
    /\ commands < MaxCommands
    /\ \E j \in PkgJobs \cup YarnJobs :
          sess' = [ sess EXCEPT ![s] =
                      [ IdleSession EXCEPT
                          !.pc = IF j.tool = "package" THEN "is_installed" ELSE "yarn_new",
                          !.job = j, !.snap = Disk,
                          !.collection = yarn_collection ] ]
    /\ commands' = commands + 1
    /\ UNCHANGED << varsOther, varsDisk >>

\* two sessions at once, each installing a package of its own: the first
\* session a version of cowsay, the second moo
ConcurrentJobs(s) ==
    { j \in PkgJobs : (j.name = "cowsay") <=> (s = "s1") }

StartConcurrent(s) ==
    /\ sess[s].pc = "idle"
    /\ sess[s].job = None
    /\ \E j \in ConcurrentJobs(s) :
          sess' = [ sess EXCEPT ![s] =
                      [ IdleSession EXCEPT !.pc = "is_installed", !.job = j,
                                           !.snap = Disk,
                                           !.collection = yarn_collection ] ]
    /\ commands' = commands + 1
    /\ UNCHANGED << varsOther, varsDisk >>

\* (a plausible slip: the image directory alone is taken as the installation)
is_installed_by_image(name, version) ==
    pkg_image[ << name, version >> ] = "whole"

\* PackageDistro::is_installed: only the package config is consulted
is_installed(name, version) ==
    /\ pkg_config[name] # None
    /\ pkg_config[name].version = version

\* (a plausible slip: the bins are taken from the manifest without looking
\* for a bin config owned by another package)
generate_bin_map_unchecked(name, version) ==
    IF pkg_image[ << name, version >> ] # "whole"
    THEN [ ok |-> FALSE, err |-> "PackageReadError" ]
    ELSE IF manifest_bins(name, version) = {}
    THEN [ ok |-> FALSE, err |-> "NoPackageExecutables" ]
    ELSE [ ok |-> TRUE, bins |-> manifest_bins(name, version) ]

\* PackageDistro::generate_bin_map, as Ok(bins) or Err(kind)
generate_bin_map(name, version) ==
    IF pkg_image[ << name, version >> ] # "whole"
    THEN [ ok |-> FALSE, err |-> "PackageReadError" ]
    ELSE IF manifest_bins(name, version) = {}
    THEN [ ok |-> FALSE, err |-> "NoPackageExecutables" ]
    ELSE IF \E b \in manifest_bins(name, version) :
                bin_configs[b] # None /\ bin_configs[b].package # name
    THEN [ ok |-> FALSE, err |-> "BinaryAlreadyInstalled" ]
    ELSE [ ok |-> TRUE, bins |-> manifest_bins(name, version) ]

\* fetch(): if self.is_installed() { return Ok(Fetched::Installed(..)) }
PkgIsInstalled(s) ==
    /\ sess[s].pc = "is_installed"
    /\ LET name == sess[s].job.name
           version == sess[s].job.version
           bin_map == generate_bin_map(name, version)
       IN  sess' = [ sess EXCEPT ![s] =
                IF is_installed(name, version)
                THEN Return(s, IF bin_map.ok THEN "Installed" ELSE bin_map.err)
                ELSE [ sess[s] EXCEPT !.pc = "load_archive" ] ]
    /\ UNCHANGED << varsOther, varsDisk, commands >>

\* A plausible slip: any tarball in the inventory is taken as the archive.
load_cached_archive_unverified(tarball, shasum) ==
    tarball # "absent"

\* load_cached_archive builds Some(archive) only when the tarball and the
\* sidecar both exist and the SHA-1 of the tarball equals the sidecar

load_cached_archive(tarball, shasum) ==
    /\ tarball # "absent"
    /\ shasum # None
    /\ sha1(tarball) = shasum

\* Tarball::fetch(url, file): the request is issued and the cache file is
\* created; its bytes arrive as the archive is unpacked
tarball_fetch(content) == "partial"

\* load_or_fetch_archive: the cached archive, or else a download
PkgLoadOrFetchArchive(s) ==
    /\ sess[s].pc = "load_archive"
    /\ LET d == Distro(s) IN
       IF load_cached_archive(pkg_tarball[d], pkg_shasum[d])
       THEN /\ sess' = [ sess EXCEPT ![s].pc = "tempdir", ![s].archive = "cached" ]
            /\ UNCHANGED pkg_tarball
       ELSE \E ok \in BOOLEAN :
              IF ok
              THEN /\ pkg_tarball' = [ pkg_tarball EXCEPT ![d] = tarball_fetch(@) ]
                   /\ sess' = [ sess EXCEPT ![s].pc = "tempdir",
                                            ![s].archive = "downloaded",
                                            ![s].net = TRUE ]
              ELSE /\ sess' = [ sess EXCEPT ![s] =
                                  [ Return(s, "DownloadToolNetworkError")
                                      EXCEPT !.net = TRUE ] ]
                   /\ UNCHANGED pkg_tarball
    /\ UNCHANGED << varsOther, pkg_shasum, pkg_image, pkg_config, bin_configs, shims,
                    yarn_tarball, yarn_shasum, yarn_image, tmp_left, commands >>

\* tempdir_in(tmp_root)
PkgTempDir(s) ==
    /\ sess[s].pc = "tempdir"
    /\ sess' = [ sess EXCEPT ![s].pc = "unpack", ![s].temp = "empty" ]
    /\ UNCHANGED << varsOther, varsDisk, commands >>

\* archive.unpack(temp.path()): the temp directory receives the content of the
\* archive, one top-level directory or something else; a downloaded archive is
\* written to the cache file as it is read
\* (a plausible slip: the archive is unpacked in place, into the image directory)
unpack_into_image(s, shape) ==
    /\ pkg_image' = [ pkg_image EXCEPT ![Distro(s)] = "whole" ]
    /\ sess' = [ sess EXCEPT ![s].pc = "clear_image", ![s].temp = shape ]

unpack_into_temp(s, shape) ==
    /\ UNCHANGED pkg_image
    /\ sess' = [ sess EXCEPT ![s].pc = "clear_image", ![s].temp = shape ]

PkgUnpack(s) ==
    /\ sess[s].pc = "unpack"
    /\ \E ok \in BOOLEAN :
          IF ok
          THEN /\ \E content \in IF sess[s].archive = "downloaded"
                                 THEN { "published", "other" }
                                 ELSE { pkg_tarball[Distro(s)] } :
                     pkg_tarball' = [ pkg_tarball EXCEPT ![Distro(s)] = content ]
               /\ \E shape \in { "one_dir", "malformed" } :
                     unpack_into_temp(s, shape)
          ELSE /\ sess' = [ sess EXCEPT ![s] = Return(s, "UnpackArchiveError") ]
               /\ UNCHANGED << pkg_tarball, pkg_image >>
    /\ UNCHANGED << varsOther, pkg_shasum, pkg_config, bin_configs, shims,
                    yarn_tarball, yarn_shasum, yarn_image, tmp_left, commands >>

\* ensure_containing_dir_exists(&image_dir); ensure_dir_does_not_exist(&image_dir)
PkgClearImage(s) ==
    /\ sess[s].pc = "clear_image"
    /\ pkg_image' = [ pkg_image EXCEPT ![Distro(s)] = "absent" ]
    /\ sess' = [ sess EXCEPT ![s].pc = "find_unpack_dir" ]
    /\ UNCHANGED << varsOther, pkg_tarball, pkg_shasum, pkg_config, bin_configs, shims,
                    yarn_tarball, yarn_shasum, yarn_image, tmp_left, commands >>

\* find_unpack_dir(temp.path()): the only entry of the directory, or else
\* PackageUnpackError
find_unpack_dir(temp) ==
    IF temp = "one_dir" THEN [ ok |-> TRUE ] ELSE [ ok |-> FALSE, err |-> "PackageUnpackError" ]

PkgFindUnpackDir(s) ==
    /\ sess[s].pc = "find_unpack_dir"
    /\ sess' = [ sess EXCEPT ![s] =
                   IF find_unpack_dir(sess[s].temp).ok
                   THEN [ sess[s] EXCEPT !.pc = "rename" ]
                   ELSE Return(s, find_unpack_dir(sess[s].temp).err) ]
    /\ UNCHANGED << varsOther, varsDisk, commands >>

\* rename(&unpack_dir, &image_dir), which can fail with SetupToolImageError
\* (a plausible slip: the result of rename is dropped and fetch goes on)
rename_error_ignored(s) == [ sess[s] EXCEPT !.pc = "write_shasum" ]

rename_error(s) == Return(s, "SetupToolImageError")

PkgRename(s) ==
    /\ sess[s].pc = "rename"
    /\ \E ok \in BOOLEAN :
          IF ok
          THEN /\ pkg_image' = [ pkg_image EXCEPT ![Distro(s)] = "whole" ]
               /\ sess' = [ sess EXCEPT ![s].pc = "write_shasum",
                                        ![s].temp = "moved",
                                        ![s].renamed = TRUE ]
          ELSE /\ sess' = [ sess EXCEPT ![s] = rename_error(s) ]
               /\ UNCHANGED pkg_image
    /\ UNCHANGED << varsOther, pkg_tarball, pkg_shasum, pkg_config, bin_configs, shims,
                    yarn_tarball, yarn_shasum, yarn_image, tmp_left, commands >>

\* write(self.shasum_file, self.shasum): the checksum of the registry entry
PkgWriteShasum(s) ==
    /\ sess[s].pc = "write_shasum"
    /\ \E ok \in BOOLEAN :
          IF ok
          THEN /\ pkg_shasum' = [ pkg_shasum EXCEPT ![Distro(s)] = registry_shasum ]
               /\ sess' = [ sess EXCEPT ![s].pc = "bin_map" ]
          ELSE /\ sess' = [ sess EXCEPT ![s] = Return(s, "WritePackageShasumError") ]
               /\ UNCHANGED pkg_shasum
    /\ UNCHANGED << varsOther, pkg_tarball, pkg_image, pkg_config, bin_configs, shims,
                    yarn_tarball, yarn_shasum, yarn_image, tmp_left, commands >>

\* Ok(Fetched::Now(PackageVersion::new(name, version, self.generate_bin_map()?)))
PkgGenerateBinMap(s) ==
    /\ sess[s].pc = "bin_map"
    /\ LET bin_map == generate_bin_map(sess[s].job.name, sess[s].job.version) IN
       sess' = [ sess EXCEPT ![s] =
                   IF bin_map.ok
                   THEN [ sess[s] EXCEPT !.pc = "install", !.res = "Now",
                                         !.temp = "none", !.todo = bin_map.bins ]
                   ELSE Return(s, bin_map.err) ]
    /\ UNCHANGED << varsOther, varsDisk, commands >>

\* PackageVersion::install: platform.checkout, then the dependencies of the
\* package are installed inside its image directory
PkgInstallDependencies(s) ==
    /\ sess[s].pc = "install"
    /\ \E ok \in BOOLEAN :
          sess' = [ sess EXCEPT ![s] =
                      IF ok
                      THEN [ sess[s] EXCEPT !.pc = "write_package_config" ]
                      ELSE [ sess[s] EXCEPT !.pc = "idle", !.out = "error" ] ]
    /\ UNCHANGED << varsOther, varsDisk, commands >>

\* PackageVersion::package_config
package_config(name, version, bin_names) ==
    [ name |-> name, version |-> version, bins |-> bin_names ]

\* PackageVersion::bin_config
bin_config(bin_name, name, version) ==
    [ name |-> bin_name, package |-> name, version |-> version ]

\* write_config_and_shims: self.package_config(&platform_spec).to_serial().write()
PkgWritePackageConfig(s) ==
    /\ sess[s].pc = "write_package_config"
    /\ pkg_config' = [ pkg_config EXCEPT ![sess[s].job.name] =
                         package_config(sess[s].job.name, sess[s].job.version,
                                        manifest_bins(sess[s].job.name,
                                                      sess[s].job.version)) ]
    /\ sess' = [ sess EXCEPT ![s].pc = "write_bins" ]
    /\ UNCHANGED << varsOther, pkg_tarball, pkg_shasum, pkg_image, bin_configs, shims,
                    yarn_tarball, yarn_shasum, yarn_image, tmp_left, commands >>

\* write_config_and_shims: one turn of the loop over self.bins, which writes
\* the bin config of a binary and creates its shim
PkgWriteBinConfig(s) ==
    /\ sess[s].pc = "write_bins"
    /\ \E b \in sess[s].todo :
          /\ bin_configs' = [ bin_configs EXCEPT ![b] =
                                bin_config(b, sess[s].job.name, sess[s].job.version) ]
          /\ shims' = shims \cup { b }
          /\ sess' = [ sess EXCEPT ![s] =
                         IF sess[s].todo = { b }
                         THEN [ sess[s] EXCEPT !.pc = "idle", !.out = "ok", !.todo = {} ]
                         ELSE [ sess[s] EXCEPT !.todo = @ \ { b } ] ]
    /\ UNCHANGED << varsOther, pkg_tarball, pkg_shasum, pkg_image, pkg_config,
                    yarn_tarball, yarn_shasum, yarn_image, tmp_left, commands >>

\* yarn.rs distro_is_valid: false for every file
distro_is_valid(tarball) == FALSE

\* YarnDistro::new, public, remote: the archive of the distro is provisioned
\* when the distro is constructed, before fetch is called on it
YarnNew(s) ==
    /\ sess[s].pc = "yarn_new"
    /\ LET v == sess[s].job.version IN
       IF distro_is_valid(yarn_tarball[v])
       THEN /\ sess' = [ sess EXCEPT ![s].pc = "yarn_fetch", ![s].archive = "cached" ]
            /\ UNCHANGED yarn_tarball
       ELSE \E ok \in BOOLEAN :
              IF ok
              THEN /\ yarn_tarball' = [ yarn_tarball EXCEPT ![v] = tarball_fetch(@) ]
                   /\ sess' = [ sess EXCEPT ![s].pc = "yarn_fetch",
                                            ![s].archive = "downloaded",
                                            ![s].net = TRUE ]
              ELSE /\ sess' = [ sess EXCEPT ![s] =
                                  [ Return(s, "DownloadError") EXCEPT !.net = TRUE ] ]
                   /\ UNCHANGED yarn_tarball
    /\ UNCHANGED << varsOther, pkg_tarball, pkg_shasum, pkg_image, pkg_config, bin_configs,
                    shims, yarn_shasum, yarn_image, tmp_left, commands >>

\* YarnDistro::fetch: if collection.contains(&self.version) { return Already }
YarnFetch(s) ==
    /\ sess[s].pc = "yarn_fetch"
    /\ sess' = [ sess EXCEPT ![s] =
                   IF sess[s].job.version \in sess[s].collection
                   THEN Return(s, "Already")
                   ELSE [ sess[s] EXCEPT !.pc = "yarn_unpack", !.temp = "empty" ] ]
    /\ UNCHANGED << varsOther, varsDisk, commands >>

\* self.archive.unpack(temp.path(), ..)
YarnUnpack(s) ==
    /\ sess[s].pc = "yarn_unpack"
    /\ LET v == sess[s].job.version IN
       \E ok \in BOOLEAN :
          IF ok
          THEN /\ \E content \in IF sess[s].archive = "downloaded"
                                 THEN { "published", "other" }
                                 ELSE { yarn_tarball[v] } :
                     yarn_tarball' = [ yarn_tarball EXCEPT ![v] = content ]
               /\ \E shape \in { "one_dir", "malformed" } :
                     sess' = [ sess EXCEPT ![s].pc = "yarn_clear_image",
                                           ![s].temp = shape ]
          ELSE /\ sess' = [ sess EXCEPT ![s] = Return(s, "UnpackArchiveError") ]
               /\ UNCHANGED yarn_tarball
    /\ UNCHANGED << varsOther, pkg_tarball, pkg_shasum, pkg_image, pkg_config, bin_configs,
                    shims, yarn_shasum, yarn_image, tmp_left, commands >>

\* ensure_containing_dir_exists(&dest); if dest.is_dir() { remove_dir_all(&dest) }
YarnClearImage(s) ==
    /\ sess[s].pc = "yarn_clear_image"
    /\ yarn_image' = [ yarn_image EXCEPT ![sess[s].job.version] = "absent" ]
    /\ sess' = [ sess EXCEPT ![s].pc = "yarn_rename" ]
    /\ UNCHANGED << varsOther, pkg_tarball, pkg_shasum, pkg_image, pkg_config, bin_configs,
                    shims, yarn_tarball, yarn_shasum, tmp_left, commands >>

\* rename(temp.path().join(yarn_archive_root_dir_name(..)), dest), which fails
\* when the archive did not unpack to that directory
YarnRename(s) ==
    /\ sess[s].pc = "yarn_rename"
    /\ \E ok \in IF sess[s].temp = "one_dir" THEN BOOLEAN ELSE { FALSE } :
          IF ok
          THEN /\ yarn_image' = [ yarn_image EXCEPT ![sess[s].job.version] = "whole" ]
               /\ sess' = [ sess EXCEPT ![s] =
                              [ Return(s, "Now") EXCEPT !.renamed = TRUE ] ]
          ELSE /\ sess' = [ sess EXCEPT ![s] = Return(s, "UnknownError") ]
               /\ UNCHANGED yarn_image
    /\ UNCHANGED << varsOther, pkg_tarball, pkg_shasum, pkg_image, pkg_config, bin_configs,
                    shims, yarn_tarball, yarn_shasum, tmp_left, commands >>

\* The process is interrupted: its locals are lost and its temp directory, if
\* it has one, stays under tmp.  A directory whose removal was under way may
\* be left with part of its content.
interrupted_removal(state) ==
    IF state = "absent" THEN { "absent" } ELSE { state, "partial" }

Crash(s) ==
    /\ sess[s].pc # "idle"
    /\ sess' = [ sess EXCEPT ![s].pc = "idle", ![s].out = "crashed",
                             ![s].temp = "none", ![s].todo = {} ]
    /\ tmp_left' = IF sess[s].temp = "none" THEN tmp_left ELSE tmp_left + 1
    /\ IF sess[s].pc = "clear_image"
       THEN \E st \in interrupted_removal(pkg_image[Distro(s)]) :
               pkg_image' = [ pkg_image EXCEPT ![Distro(s)] = st ]
       ELSE UNCHANGED pkg_image
    /\ IF sess[s].pc = "yarn_clear_image"
       THEN \E st \in interrupted_removal(yarn_image[sess[s].job.version]) :
               yarn_image' = [ yarn_image EXCEPT ![sess[s].job.version] = st ]
       ELSE UNCHANGED yarn_image
    /\ UNCHANGED << varsOther, pkg_tarball, pkg_shasum, pkg_config, bin_configs, shims,
                    yarn_tarball, yarn_shasum, commands >>

(***************************************************************************)
(* PackageVersion::uninstall, and sequences of package installs and        *)
(* uninstalls                                                              *)
(***************************************************************************)
UninstallJobs == { [ tool |-> "uninstall", name |-> n, version |-> None ] : n \in Packages }
MaxPackageCommands == 3

StartPackageCommand(s) ==
    /\ sess[s].pc = "idle"
    /\ commands < MaxPackageCommands
    /\ \E j \in PkgJobs \cup UninstallJobs :
          sess' = [ sess EXCEPT ![s] =
                      [ IdleSession EXCEPT
                          !.pc = IF j.tool = "package" THEN "is_installed"
                                 ELSE "uninstall",
                          !.job = j, !.snap = Disk ] ]
    /\ commands' = commands + 1
    /\ UNCHANGED << varsOther, varsDisk >>

\* binaries_from_package: the names whose bin config names the package
binaries_from_package(package) ==
    { b \in PkgBinNames : bin_configs[b] # None /\ bin_configs[b].package = package }

\* uninstall: the binaries to remove are those the package config lists, or
\* without a package config those whose bin config names the package
UninstallListBins(s) ==
    /\ sess[s].pc = "uninstall"
    /\ LET name == sess[s].job.name IN
       sess' = [ sess EXCEPT ![s] =
                   IF pkg_config[name] # None
                   THEN [ sess[s] EXCEPT !.pc = "remove_bins",
                                         !.todo = pkg_config[name].bins ]
                   ELSE [ sess[s] EXCEPT !.pc = "remove_orphaned_bins",
                                         !.todo = binaries_from_package(name) ] ]
    /\ UNCHANGED << varsOther, varsDisk, commands >>

\* one turn of the loop: remove_config_and_shim deletes the shim, then the
\* bin config file, and fails when that file does not exist
UninstallRemoveBin(s) ==
    /\ sess[s].pc \in { "remove_bins", "remove_orphaned_bins" }
    /\ sess[s].todo # {}
    /\ \E b \in sess[s].todo :
          /\ shims' = shims \ { b }
          /\ IF bin_configs[b] # None
             THEN /\ bin_configs' = [ bin_configs EXCEPT ![b] = None ]
                  /\ sess' = [ sess EXCEPT ![s].todo = @ \ { b } ]
             ELSE /\ UNCHANGED bin_configs
                  /\ sess' = [ sess EXCEPT ![s] =
                                 [ sess[s] EXCEPT !.pc = "idle", !.out = "error",
                                                  !.res = "DeleteFileError",
                                                  !.todo = {} ] ]
    /\ UNCHANGED << varsOther, pkg_tarball, pkg_shasum, pkg_image, pkg_config,
                    yarn_tarball, yarn_shasum, yarn_image, tmp_left, commands >>

\* (a plausible slip: the package config file is left in place)
uninstall_keeps_config(name) == pkg_config

\* fs::remove_file(&package_config_file)
uninstall_removes_config(name) == [ pkg_config EXCEPT ![name] = None ]

\* after the loop: the package config is removed when there was one
UninstallRemoveConfig(s) ==
    /\ sess[s].pc \in { "remove_bins", "remove_orphaned_bins" }
    /\ sess[s].todo = {}
    /\ pkg_config' = IF sess[s].pc = "remove_bins"
                     THEN uninstall_removes_config(sess[s].job.name)
                     ELSE pkg_config
    /\ sess' = [ sess EXCEPT ![s].pc = "remove_image" ]
    /\ UNCHANGED << varsOther, pkg_tarball, pkg_shasum, pkg_image, bin_configs,
                    shims, yarn_tarball, yarn_shasum, yarn_image, tmp_left,
                    commands >>

\* fs::remove_dir_all(package_image_root_dir().join(&name)): the images of
\* every version of the package
UninstallRemoveImage(s) ==
    /\ sess[s].pc = "remove_image"
    /\ pkg_image' = [ d \in PkgDistros |->
                        IF d[1] = sess[s].job.name THEN "absent" ELSE pkg_image[d] ]
    /\ sess' = [ sess EXCEPT ![s] =
                   [ sess[s] EXCEPT !.pc = "idle", !.out = "ok",
                                    !.res = "Uninstalled" ] ]
    /\ UNCHANGED << varsOther, pkg_tarball, pkg_shasum, pkg_config, bin_configs,
                    shims, yarn_tarball, yarn_shasum, yarn_image, tmp_left,
                    commands >>

\* The process is interrupted while remove_dir_all is under way: each image
\* directory of the package is as it was, removed, or left with part of its
\* content.
CrashInRemoveImage(s) ==
    /\ sess[s].pc = "remove_image"
    /\ \E after \in [ PkgDistros -> { "absent", "partial", "whole" } ] :
          /\ \A d \in PkgDistros :
                IF d[1] = sess[s].job.name
                THEN after[d] \in interrupted_removal(pkg_image[d]) \cup { "absent" }
                ELSE after[d] = pkg_image[d]
          /\ pkg_image' = after
    /\ sess' = [ sess EXCEPT ![s].pc = "idle", ![s].out = "crashed" ]
    /\ UNCHANGED << varsOther, pkg_tarball, pkg_shasum, pkg_config, bin_configs,
                    shims, yarn_tarball, yarn_shasum, yarn_image, tmp_left,
                    commands >>

\* what a call of a pure function leaves alone
varsProgram == << varsPath, varsPlatform, varsShim, varsFetch >>
varsNotResolve == << varsProgram, varsHooks, varsDiscovery, varsCommands >>
varsNotHooks == << varsProgram, varsResolve, varsDiscovery, varsCommands >>
varsNotDiscovery == << varsProgram, varsResolve, varsHooks, varsCommands >>
varsNotCommands == << varsProgram, varsResolve, varsHooks, varsDiscovery >>
varsNotPin == << varsNotCommands, varsEnsure, varsDirs >>
varsNotEnsure == << varsNotCommands, varsPin, varsDirs >>
varsNotDirs == << varsNotCommands, varsPin, varsEnsure >>

(***************************************************************************)
(* Resolving a semver range against a package index                        *)
(***************************************************************************)
IndexVersions == { << major, minor, patch >> : major \in 1..2, minor \in 0..1, patch \in 0..1 }
MaxIndexLen == 3

\* the "versions" map of the registry document, in the order its iteration
\* yields them: any order, each version once
RawVersions ==
    { q \in UNION { [ 1..n -> IndexVersions ] : n \in 0..MaxIndexLen } :
        \A i, j \in DOMAIN q : i # j => q[i] # q[j] }

\* the requirements a range is drawn from: *, "M", ^M.m.p, ~M.m.p, >=M.m.p,
\* <M.m.p, =M.m.p
Requirements ==
    { [ op |-> "any", base |-> << 0, 0, 0 >> ] }
    \cup { [ op |-> "major", base |-> << major, 0, 0 >> ] : major \in 1..3 }
    \cup { [ op |-> o, base |-> b ] :
             o \in { "caret", "tilde", "ge", "lt", "exact" }, b \in IndexVersions }

\* VersionReq::matches for requirements without a pre-release tag
matches(req, v) ==
    CASE req.op = "any"   -> TRUE
      [] req.op = "major" -> v[1] = req.base[1]
      [] req.op = "caret" -> v[1] = req.base[1] /\ VersionGE(v, req.base)
      [] req.op = "tilde" -> /\ v[1] = req.base[1] /\ v[2] = req.base[2]
                             /\ v[3] >= req.base[3]
      [] req.op = "ge"    -> VersionGE(v, req.base)
      [] req.op = "lt"    -> ~ VersionGE(v, req.base)
      [] req.op = "exact" -> v = req.base

\* Version::cmp
cmp(a, b) ==
    IF a = b THEN "Equal" ELSE IF VersionGE(a, b) THEN "Greater" ELSE "Less"

\* (a plausible slip: the operands of the comparison in their given order)
by_version_ascending(a, b) == cmp(a, b)

\* the comparator of entries.sort_by: |a, b| b.version.cmp(&a.version)
by_version_descending(a, b) == cmp(b, a)

\* Vec::sort_by with that comparator: a stable sort, as an insertion sort;
\* an entry goes before the first one it compares Less than
RECURSIVE insert_sorted(_, _)
insert_sorted(sorted, e) ==
    IF sorted = << >> THEN << e >>
    ELSE IF by_version_descending(e, Head(sorted)) = "Less"
         THEN << e >> \o sorted
         ELSE << Head(sorted) >> \o insert_sorted(Tail(sorted), e)

RECURSIVE sort_by(_)
sort_by(entries) ==
    IF entries = << >> THEN << >>
    ELSE insert_sorted(sort_by(SubSeq(entries, 1, Len(entries) - 1)),
                       entries[Len(entries)])

\* From<RawPackageMetadata> for PackageIndex: the entries, sorted
package_index(raw) == sort_by(raw)

\* the resolver takes the first entry of the index that satisfies the
\* requirement, or fails when there is none
RECURSIVE resolve_semver(_, _)
resolve_semver(entries, req) ==
    IF entries = << >>
    THEN [ ok |-> FALSE, err |-> "PackageVersionNotFound" ]
    ELSE IF matches(req, Head(entries))
         THEN [ ok |-> TRUE, version |-> Head(entries) ]
         ELSE resolve_semver(Tail(entries), req)

InitResolve ==
    /\ matching \in Requirements
    /\ raw_versions \in RawVersions
    /\ index = Pending
    /\ resolved = Pending

IdleResolve ==
    /\ matching = None /\ raw_versions = << >>
    /\ index = Pending /\ resolved = Pending

\* the registry document is turned into the index
BuildIndex ==
    /\ index = Pending
    /\ index' = Done(package_index(raw_versions))
    /\ UNCHANGED << matching, raw_versions, resolved, varsNotResolve >>

\* the requirement is resolved against the index
ResolveSemver ==
    /\ index # Pending
    /\ resolved = Pending
    /\ resolved' = Done(resolve_semver(index.value, matching))
    /\ UNCHANGED << matching, raw_versions, index, varsNotResolve >>

(***************************************************************************)
(* The hook configuration: the hooks files of a session, merged            *)
(***************************************************************************)
HookTools == { "node", "yarn" }
HookFields == { "distro", "index", "latest" }
MaxWorkspaces == 1

\* a resolver read from the i-th source
hook_from(i) == [ template |-> i ]

\* the sets of fields a hooks file defines for a tool it names
FieldSets == { {}, { "distro" }, { "index", "latest" }, HookFields }

\* what a hooks file says of each tool: whether it names the tool, and the
\* fields it defines for it; a file that is missing names no tool
FileShapes ==
    [ HookTools -> { [ named |-> FALSE, defined |-> {} ] }
                   \cup { [ named |-> TRUE, defined |-> d ] : d \in FieldSets } ]

\* the hooks of one tool in the i-th source
tool_hooks(defined, i) ==
    [ f \in HookFields |-> IF f \in defined THEN hook_from(i) ELSE None ]

\* the i-th hooks file: per tool its hooks, or None when the file does not
\* name the tool
hooks_file(shape, i) ==
    [ t \in HookTools |->
        IF shape[t].named THEN tool_hooks(shape[t].defined, i) ELSE None ]

no_hooks == [ t \in HookTools |-> None ]

\* a field of the higher source, or else the field of the lower one
merge_field(higher, lower) == IF higher # None THEN higher ELSE lower

\* (a plausible slip: a tool the higher source names hides the lower
\* source's hooks of that tool, field by field unset or not)
merge_tool_whole(higher, lower) == IF higher # None THEN higher ELSE lower

\* the hooks of one tool from two sources
merge_tool(higher, lower) ==
    IF higher = None THEN lower
    ELSE IF lower = None THEN higher
    ELSE [ f \in HookFields |-> merge_field(higher[f], lower[f]) ]

\* the configuration of two sources
merge_hooks(higher, lower) ==
    [ t \in HookTools |-> merge_tool(higher[t], lower[t]) ]

\* the sources of a session in precedence order: the project hooks file,
\* the workspace hooks files reached through extends, the user hooks file
InitHooks ==
    /\ \E n \in 0..MaxWorkspaces :
          \E shapes \in [ 1..(n + 2) -> FileShapes ] :
              hook_sources = [ i \in 1..(n + 2) |-> hooks_file(shapes[i], i) ]
    /\ hooks = no_hooks
    /\ hooks_read = 0

IdleHooks ==
    /\ hook_sources = << >> /\ hooks = None /\ hooks_read = 0

\* the next source, in precedence order, is merged below those read so far
MergeNextSource ==
    /\ hooks_read < Len(hook_sources)
    /\ hooks' = merge_hooks(hooks, hook_sources[hooks_read + 1])
    /\ hooks_read' = hooks_read + 1
    /\ UNCHANGED << hook_sources, varsNotHooks >>

(***************************************************************************)
(* Project::for_dir: the walk from a directory up to the project root.     *)
(* A directory is the sequence of its components below the file system     *)
(* root, which is the empty sequence.                                      *)
(***************************************************************************)
DirNames == { "proj", "node_modules", "@scope", "pkg" }
MaxDepth == 4

Dirs == UNION { [ 1..n -> DirNames ] : n \in 0..MaxDepth }

\* the directory itself and the directories above it
Ancestors(d) == { SubSeq(d, 1, n) : n \in 0..Len(d) }

\* dir.join("package.json").is_file()
is_node_root(d) == d \in package_jsons

\* dir.file_name() == Some("node_modules"); the root has no file name
is_node_modules(d) == d # << >> /\ d[Len(d)] = "node_modules"

\* Path::parent: the root has none
has_parent(d) == d # << >>
parent(d) == SubSeq(d, 1, Len(d) - 1)

\* dir.parent().map_or(false, |parent| is_node_modules(parent))
is_dependency(d) == has_parent(d) /\ is_node_modules(parent(d))

is_project_root(d) == is_node_root(d) /\ ~ is_dependency(d)

InitDiscovery ==
    /\ base_dir \in Dirs
    /\ package_jsons \in SUBSET Ancestors(base_dir)
    /\ dir = base_dir
    /\ for_dir = Pending

IdleDiscovery ==
    /\ base_dir = << >> /\ package_jsons = {} /\ dir = << >>
    /\ for_dir = Pending

\* one turn of the loop: while !is_project_root(dir) { dir = parent, or
\* return Ok(None) at the root }
ForDirParent ==
    /\ for_dir = Pending
    /\ ~ is_project_root(dir)
    /\ has_parent(dir)
    /\ dir' = parent(dir)
    /\ UNCHANGED << base_dir, package_jsons, for_dir, varsNotDiscovery >>

ForDirNone ==
    /\ for_dir = Pending
    /\ ~ is_project_root(dir)
    /\ ~ has_parent(dir)
    /\ for_dir' = Done([ some |-> FALSE ])
    /\ UNCHANGED << base_dir, package_jsons, dir, varsNotDiscovery >>

\* the loop has ended: Ok(Some(Project { project_root: dir, .. }))
ForDirSome ==
    /\ for_dir = Pending
    /\ is_project_root(dir)
    /\ for_dir' = Done([ some |-> TRUE, project_root |-> dir ])
    /\ UNCHANGED << base_dir, package_jsons, dir, varsNotDiscovery >>

(***************************************************************************)
(* The pin command: Pin::run, Project::pin_node_in_toolchain,              *)
(* Project::pin_yarn_in_toolchain and Manifest::update_toolchain over the  *)
(* project's package.json                                                  *)
(***************************************************************************)
PinTools == { "node", "yarn", "npm", "package" }

\* the text of a package.json, as far as a rewrite can tell two texts apart:
\* the values of its top-level keys, the unit its lines are indented with
\* and whether it ends with a newline
IndentUnits == { "", "  ", "    ", "\t" }
ToolchainBlocks ==
    [ node : NodeVersions, npm : Opt(NpmVersions), yarn : Opt(YarnVersions),
      extends : Opt({ << "basic.json" >> }) ]
PackageJsons ==
    [ name : { "test-package" },
      dependencies : Opt({ << "eslint" >> }),
      toolchain : Opt(ToolchainBlocks),
      indent : IndentUnits,
      trailing_newline : BOOLEAN ]

\* the process exit code of a Rust panic
PanicExit == 101

\* serial::Manifest::into_manifest: the platform image of the toolchain
\* section (node and yarn), or None
manifest_platform(file) ==
    IF file.toolchain = None THEN None
    ELSE [ node |-> file.toolchain.node, yarn |-> file.toolchain.yarn ]

\* Manifest::node_str
node_str(file) ==
    IF manifest_platform(file) = None THEN None ELSE manifest_platform(file).node

\* Manifest::yarn_str
yarn_str(file) ==
    IF manifest_platform(file) = None THEN None ELSE manifest_platform(file).yarn

\* serial::Image::new(node, yarn) as the JSON value it serializes to
serial_image_new(node, yarn) ==
    [ node |-> node, npm |-> None, yarn |-> yarn, extends |-> None ]

\* detect_indent::detect_indent(&contents).indent()
detect_indent(file) == file.indent

\* what serde_json's Serializer with a PrettyFormatter writes: the object,
\* indented with the given unit, and nothing after the closing brace
serialize_pretty(map, indent) ==
    [ name |-> map.name, dependencies |-> map.dependencies,
      toolchain |-> map.toolchain, indent |-> indent,
      trailing_newline |-> FALSE ]

\* Manifest::update_toolchain: the content of the file after the rewrite
update_toolchain(block, file) ==
    LET indent == detect_indent(file)
        map == [ file EXCEPT !.toolchain = block ]
    IN  serialize_pretty(map, indent)

InitPin ==
    /\ package_json \in PackageJsons
    /\ original_json = package_json
    /\ pin_tool \in PinTools
    /\ pin_version \in CASE pin_tool = "node" -> NodeVersions
                         [] pin_tool = "yarn" -> YarnVersions
                         [] pin_tool = "npm"  -> NpmVersions
                         [] OTHER             -> { << 1, 4, 0 >> }
    /\ pin_pc = "start"
    /\ pin_err = ""
    /\ pin_exit = Pending

IdlePin ==
    /\ package_json = None
    /\ original_json = None
    /\ pin_tool = ""
    /\ pin_version = None
    /\ pin_pc = "idle"
    /\ pin_err = ""
    /\ pin_exit = Pending

\* Pin::run, ToolSpec::Npm: unimplemented!() panics
PinNpm ==
    /\ pin_pc = "start"
    /\ pin_tool = "npm"
    /\ pin_err' = "panic"
    /\ pin_exit' = Done(PanicExit)
    /\ pin_pc' = "exited"
    /\ UNCHANGED << package_json, original_json, pin_tool, pin_version,
                    varsNotPin >>

\* Pin::run, ToolSpec::Package: throw!(CannotPinPackage)
PinPackage ==
    /\ pin_pc = "start"
    /\ pin_tool = "package"
    /\ pin_err' = "CannotPinPackage"
    /\ pin_pc' = "failed"
    /\ UNCHANGED << package_json, original_json, pin_tool, pin_version,
                    pin_exit, varsNotPin >>

\* session.pin_node / session.pin_yarn: the version is resolved and fetched,
\* which can fail, before the project is asked to pin it
PinResolve ==
    /\ pin_pc = "start"
    /\ pin_tool \in { "node", "yarn" }
    /\ \/ /\ pin_pc' = "resolved"
          /\ UNCHANGED pin_err
       \/ /\ pin_err' = "DownloadToolNetworkError"
          /\ pin_pc' = "failed"
    /\ UNCHANGED << package_json, original_json, pin_tool, pin_version,
                    pin_exit, varsNotPin >>

\* Project::pin_node_in_toolchain
PinNodeInToolchain ==
    /\ pin_pc = "resolved"
    /\ pin_tool = "node"
    /\ package_json' = update_toolchain(
                          serial_image_new(pin_version, yarn_str(package_json)),
                          package_json)
    /\ pin_pc' = "pinned"
    /\ UNCHANGED << original_json, pin_tool, pin_version, pin_err, pin_exit,
                    varsNotPin >>

\* Project::pin_yarn_in_toolchain
PinYarnInToolchain ==
    /\ pin_pc = "resolved"
    /\ pin_tool = "yarn"
    /\ IF node_str(package_json) # None
       THEN /\ package_json' = update_toolchain(
                                  serial_image_new(node_str(package_json), pin_version),
                                  package_json)
            /\ pin_pc' = "pinned"
            /\ UNCHANGED pin_err
       ELSE /\ pin_err' = "NoPinnedNodeVersion"
            /\ pin_pc' = "failed"
            /\ UNCHANGED package_json
    /\ UNCHANGED << original_json, pin_tool, pin_version, pin_exit,
                    varsNotPin >>

\* Pin::run returns Ok(ExitCode::Success)
PinExitSuccess ==
    /\ pin_pc = "pinned"
    /\ pin_exit' = Done(Success)
    /\ pin_pc' = "exited"
    /\ UNCHANGED << package_json, original_json, pin_tool, pin_version,
                    pin_err, varsNotPin >>

\* Pin::run returns Err(err): the top-level handler of the command exits with
\* the exit code of the error
PinExitError ==
    /\ pin_pc = "failed"
    /\ pin_exit' = Done(error_exit_code(pin_err))
    /\ pin_pc' = "exited"
    /\ UNCHANGED << package_json, original_json, pin_tool, pin_version,
                    pin_err, varsNotPin >>

(***************************************************************************)
(* Session::ensure_node and Session::ensure_yarn, called any number of      *)
(* times in one session                                                    *)
(***************************************************************************)
EnsureTools == { "node", "yarn" }
MaxEnsureCalls == 3

EnsureVersions(tool) == IF tool = "node" THEN NodeVersions ELSE YarnVersions

\* the mutation of the guard: every call fetches
ensure_always_fetches(versions, version) == TRUE

\* if !inventory.node.versions.contains(version)
ensure_needs_fetch(versions, version) == version \notin versions

InitEnsure ==
    /\ en_images \in [ EnsureTools -> SUBSET (NodeVersions \cup YarnVersions) ]
    /\ \A tool \in EnsureTools : en_images[tool] \subseteq EnsureVersions(tool)
    \* the inventory is scanned from the image directories
    /\ en_inventory = en_images
    /\ en_log = << >>

IdleEnsure ==
    /\ en_images = [ tool \in EnsureTools |-> {} ]
    /\ en_inventory = [ tool \in EnsureTools |-> {} ]
    /\ en_log = << >>

\* what one ensure call can do: nothing when the version is in the
\* inventory; otherwise the fetch either installs the version or fails
ensure_outcomes(versions, version) ==
    IF ensure_needs_fetch(versions, version)
    THEN { "installed", "failed" }
    ELSE { "nothing" }

\* the idle state of the fetch after an ensure call: an installed version has
\* its image directory and is recorded in the inventory
ensure_installs(sets, tool, version, did) ==
    IF did = "installed" THEN [ sets EXCEPT ![tool] = @ \cup { version } ] ELSE sets

\* Session::ensure_node, from its first statement to its return
SessionEnsureNode ==
    /\ Len(en_log) < MaxEnsureCalls
    /\ \E version \in NodeVersions :
       \E did \in ensure_outcomes(en_inventory["node"], version) :
          /\ en_log' = Append(en_log, [ tool |-> "node", version |-> version,
                                        had |-> version \in en_inventory["node"],
                                        did |-> did ])
          /\ en_images' = ensure_installs(en_images, "node", version, did)
          /\ en_inventory' = ensure_installs(en_inventory, "node", version, did)
    /\ UNCHANGED varsNotEnsure

\* Session::ensure_yarn, from its first statement to its return
SessionEnsureYarn ==
    /\ Len(en_log) < MaxEnsureCalls
    /\ \E version \in YarnVersions :
       \E did \in ensure_outcomes(en_inventory["yarn"], version) :
          /\ en_log' = Append(en_log, [ tool |-> "yarn", version |-> version,
                                        had |-> version \in en_inventory["yarn"],
                                        did |-> did ])
          /\ en_images' = ensure_installs(en_images, "yarn", version, did)
          /\ en_inventory' = ensure_installs(en_inventory, "yarn", version, did)
    /\ UNCHANGED varsNotEnsure

(***************************************************************************)
(* path::ensure_jetson_dirs_exist, run at the start of every command       *)
(***************************************************************************)
MaxRuns == 2

\* the directories ensure_jetson_dirs_exist creates, in the order of its calls
ManagedDirs ==
    << Home \o << "cache", "node" >>,
       shim_dir,
       tools_dir \o << "inventory", "node" >>,
       tools_dir \o << "inventory", "packages" >>,
       tools_dir \o << "inventory", "yarn" >>,
       node_image_root_dir,
       yarn_image_root_dir,
       tools_dir \o << "user" >>,
       Home \o << "tmp" >>,
       Home \o << "log" >> >>

\* fs::create_dir_all(path): the directory and those above it, from the home
\* directory down
create_dir_all(d) == { SubSeq(d, 1, n) : n \in Len(Home)..Len(d) }

LayoutDirs == UNION { create_dir_all(ManagedDirs[i]) : i \in DOMAIN ManagedDirs }

\* a directory exists only inside a directory that exists
DirsClosed(existing) ==
    \A d \in existing : create_dir_all(d) \subseteq existing

InitDirs ==
    /\ fs_dirs \in SUBSET LayoutDirs
    /\ DirsClosed(fs_dirs)
    /\ dirs_step = 0
    /\ dirs_result = Pending
    /\ dirs_runs = 1

IdleDirs ==
    /\ fs_dirs = {}
    /\ dirs_step = 0
    /\ dirs_result = Pending
    /\ dirs_runs = 0

\* if !jetson_home()?.exists() { ... } Ok(())
DirsCheckHome ==
    /\ dirs_runs > 0
    /\ dirs_step = 0
    /\ dirs_result = Pending
    /\ IF Home \in fs_dirs
       THEN /\ dirs_result' = Done("Ok")
            /\ UNCHANGED dirs_step
       ELSE /\ dirs_step' = 1
            /\ UNCHANGED dirs_result
    /\ UNCHANGED << fs_dirs, dirs_runs, varsNotDirs >>

\* ensure_dir_exists(..)?: one of the calls in the block, which creates the
\* directory or fails with CreateDirError; Ok(()) after the last of them
DirsEnsureDirExists ==
    /\ dirs_step \in DOMAIN ManagedDirs
    /\ dirs_result = Pending
    /\ \E created \in BOOLEAN :
          IF created
          THEN /\ fs_dirs' = fs_dirs \cup create_dir_all(ManagedDirs[dirs_step])
               /\ dirs_step' = dirs_step + 1
               /\ dirs_result' = IF dirs_step = Len(ManagedDirs)
                                 THEN Done("Ok") ELSE Pending
          ELSE /\ dirs_result' = Done("CreateDirError")
               \* create_dir_all can have created some of the directories above
               /\ \E made \in SUBSET create_dir_all(ManagedDirs[dirs_step]) :
                     /\ ManagedDirs[dirs_step] \notin made
                     /\ DirsClosed(fs_dirs \cup made)
                     /\ fs_dirs' = fs_dirs \cup made
               /\ UNCHANGED dirs_step
    /\ UNCHANGED << dirs_runs, varsNotDirs >>

\* the next command of the user begins with the same call
DirsNextCommand ==
    /\ dirs_result # Pending
    /\ dirs_runs < MaxRuns
    /\ dirs_runs' = dirs_runs + 1
    /\ dirs_step' = 0
    /\ dirs_result' = Pending
    /\ UNCHANGED << fs_dirs, varsNotDirs >>

IdleCommands == IdlePin /\ IdleEnsure /\ IdleDirs

\* the calls of pure functions are idle while another specification runs
IdleCalls == IdleResolve /\ IdleHooks /\ IdleDiscovery /\ IdleCommands

vars == << varsPath, varsPlatform, varsShim, varsFetch, varsCalls >>

(***************************************************************************)
(* Specifications                                                          *)
(***************************************************************************)
NextPath == CallPath /\ UNCHANGED << varsPlatform, varsShim, varsFetch, varsCalls >>

InitSpecPath == InitPath /\ IdlePlatform /\ IdleShim /\ IdleFetch /\ IdleCalls

SpecPath == InitSpecPath /\ [][NextPath]_vars

NextPlatform ==
    CallCurrentPlatform /\ UNCHANGED << varsPath, varsShim, varsFetch, varsCalls >>

InitSpecPlatform == InitPlatform /\ IdlePath /\ IdleShim /\ IdleFetch /\ IdleCalls

SpecPlatform == InitSpecPlatform /\ [][NextPlatform]_vars

NextShim ==
    \/ NpxCurrentPlatform
    \/ EnsureNode
    \/ EnsureYarn
    \/ CheckoutReturn
    \/ NpxBuild
    \/ BinaryNew
    \/ Spawn
    \/ SpawnFails
    \/ ChildEnds
    \/ MainAddEventEnd
    \/ MainExit
    \/ MainAddEventError
    \/ MainExitError

InitSpecShim == InitShim /\ IdleFetch /\ IdleCalls

SpecShim == InitSpecShim /\ [][NextShim]_vars

\* one session at a time works on the installation
FetchSessions == { "s1" }

NextFetch ==
    \E s \in FetchSessions :
        \/ StartCommand(s)
        \/ PkgIsInstalled(s)
        \/ PkgLoadOrFetchArchive(s)
        \/ PkgTempDir(s)
        \/ PkgUnpack(s)
        \/ PkgClearImage(s)
        \/ PkgFindUnpackDir(s)
        \/ PkgRename(s)
        \/ PkgWriteShasum(s)
        \/ PkgGenerateBinMap(s)
        \/ PkgInstallDependencies(s)
        \/ PkgWritePackageConfig(s)
        \/ PkgWriteBinConfig(s)
        \/ YarnNew(s)
        \/ YarnFetch(s)
        \/ YarnUnpack(s)
        \/ YarnClearImage(s)
        \/ YarnRename(s)
        \/ Crash(s)

InitSpecFetch == InitFetch /\ IdlePath /\ IdlePlatform /\ IdleInvocation /\ IdleCalls

SpecFetch == InitSpecFetch /\ [][NextFetch]_vars

NextPackages ==
    \E s \in FetchSessions :
        \/ StartPackageCommand(s)
        \/ PkgIsInstalled(s)
        \/ PkgLoadOrFetchArchive(s)
        \/ PkgTempDir(s)
        \/ PkgUnpack(s)
        \/ PkgClearImage(s)
        \/ PkgFindUnpackDir(s)
        \/ PkgRename(s)
        \/ PkgWriteShasum(s)
        \/ PkgGenerateBinMap(s)
        \/ PkgInstallDependencies(s)
        \/ PkgWritePackageConfig(s)
        \/ PkgWriteBinConfig(s)
        \/ UninstallListBins(s)
        \/ UninstallRemoveBin(s)
        \/ UninstallRemoveConfig(s)
        \/ UninstallRemoveImage(s)
        \/ CrashInRemoveImage(s)
        \/ Crash(s)

InitSpecPackages ==
    /\ InitFetch /\ IdlePath /\ IdlePlatform /\ IdleInvocation /\ IdleCalls
    /\ \A v \in FetchYarnVersions : yarn_tarball[v] = "absent"

SpecPackages == InitSpecPackages /\ [][NextPackages]_vars

NextConcurrent ==
    \E s \in Sessions :
        \/ StartConcurrent(s)
        \/ PkgIsInstalled(s)
        \/ PkgLoadOrFetchArchive(s)
        \/ PkgTempDir(s)
        \/ PkgUnpack(s)
        \/ PkgClearImage(s)
        \/ PkgFindUnpackDir(s)
        \/ PkgRename(s)
        \/ PkgWriteShasum(s)
        \/ PkgGenerateBinMap(s)
        \/ PkgInstallDependencies(s)
        \/ PkgWritePackageConfig(s)
        \/ PkgWriteBinConfig(s)

InitSpecConcurrent ==
    /\ InitFetch /\ IdlePath /\ IdlePlatform /\ IdleInvocation /\ IdleCalls
    /\ \A v \in FetchYarnVersions : yarn_tarball[v] = "absent"

SpecConcurrent == InitSpecConcurrent /\ [][NextConcurrent]_vars

NextResolve ==
    \/ BuildIndex
    \/ ResolveSemver

InitSpecResolve ==
    /\ InitResolve /\ IdlePath /\ IdlePlatform /\ IdleShim /\ IdleFetch
    /\ IdleHooks /\ IdleDiscovery /\ IdleCommands

SpecResolve == InitSpecResolve /\ [][NextResolve]_vars

NextHooks == MergeNextSource

InitSpecHooks ==
    /\ InitHooks /\ IdlePath /\ IdlePlatform /\ IdleShim /\ IdleFetch
    /\ IdleResolve /\ IdleDiscovery /\ IdleCommands

SpecHooks == InitSpecHooks /\ [][NextHooks]_vars

NextDiscovery ==
    \/ ForDirParent
    \/ ForDirNone
    \/ ForDirSome

InitSpecDiscovery ==
    /\ InitDiscovery /\ IdlePath /\ IdlePlatform /\ IdleShim /\ IdleFetch
    /\ IdleResolve /\ IdleHooks /\ IdleCommands

SpecDiscovery == InitSpecDiscovery /\ [][NextDiscovery]_vars

NextPin ==
    \/ PinNpm
    \/ PinPackage
    \/ PinResolve
    \/ PinNodeInToolchain
    \/ PinYarnInToolchain
    \/ PinExitSuccess
    \/ PinExitError

InitSpecPin ==
    /\ InitPin /\ IdlePath /\ IdlePlatform /\ IdleShim /\ IdleFetch
    /\ IdleResolve /\ IdleHooks /\ IdleDiscovery /\ IdleEnsure /\ IdleDirs

SpecPin == InitSpecPin /\ [][NextPin]_vars

NextEnsure ==
    \/ SessionEnsureNode
    \/ SessionEnsureYarn

InitSpecEnsure ==
    /\ InitEnsure /\ IdlePath /\ IdlePlatform /\ IdleShim /\ IdleFetch
    /\ IdleResolve /\ IdleHooks /\ IdleDiscovery /\ IdlePin /\ IdleDirs

SpecEnsure == InitSpecEnsure /\ [][NextEnsure]_vars

NextDirs ==
    \/ DirsCheckHome
    \/ DirsEnsureDirExists
    \/ DirsNextCommand

InitSpecDirs ==
    /\ InitDirs /\ IdlePath /\ IdlePlatform /\ IdleShim /\ IdleFetch
    /\ IdleResolve /\ IdleHooks /\ IdleDiscovery /\ IdlePin /\ IdleEnsure

SpecDirs == InitSpecDirs /\ [][NextDirs]_vars

(***************************************************************************)
(* C1: for every Image and every initial PATH, Image::path() returns a     *)
(* PATH whose first entry is the node image bin directory; whose second    *)
(* entry is the image's yarn bin directory when the image has a yarn       *)
(* version, path() adding two entries then and only the node entry         *)
(* otherwise; and no entry of the result equals the shim directory.        *)
(***************************************************************************)
C1_ImagePath ==
    new_path.done =>
        /\ Len(new_path.value) >= 1
        /\ new_path.value[1] = << "home", ".volta", "tools", "image", "node",
                            VersionStr(image.node.runtime),
                            VersionStr(image.node.npm), "bin" >>
        /\ image.yarn # None =>
              /\ Len(new_path.value) >= 2
              /\ new_path.value[2] = << "home", ".volta", "tools", "image", "yarn",
                                  VersionStr(image.yarn), "bin" >>
        /\ Len(new_path.value) =
              (IF image.yarn # None THEN 2 ELSE 1)
              + Cardinality({ i \in DOMAIN old_path :
                                old_path[i] # << "home", ".volta", "bin" >> })
        /\ \A i \in DOMAIN new_path.value : new_path.value[i] # << "home", ".volta", "bin" >>

\* path() has run on an image with yarn, over a PATH that held the shim directory
C1_Witness ==
    /\ new_path.done
    /\ image.yarn # None
    /\ \E i \in DOMAIN old_path : old_path[i] = shim_dir
    /\ Len(old_path) = MaxPathLen

(***************************************************************************)
(* C2: Session::current_platform returns the project pin unchanged         *)
(* (provenance project) when the pin sets yarn; the project's node and npm *)
(* with the user default's yarn (provenance merged) when the pin has no    *)
(* yarn; the user default (provenance default) without a project pin; and  *)
(* none when neither exists.  The user default's node and npm never appear *)
(* in the result when the project pins a platform.                         *)
(***************************************************************************)
C2_CurrentPlatform ==
    current.done =>
        LET pinned == project # None /\ project.platform # None IN
        /\ (pinned /\ project.platform.yarn # None) =>
              /\ current.value # None
              /\ current.value.source = "project"
              /\ current.value.platform = project.platform
        /\ (pinned /\ project.platform.yarn = None) =>
              /\ current.value # None
              /\ current.value.source = "merged"
              /\ current.value.platform.node_runtime = project.platform.node_runtime
              /\ current.value.platform.npm = project.platform.npm
              /\ current.value.platform.yarn =
                    (IF toolchain = None THEN None ELSE toolchain.yarn)
        /\ (~pinned /\ toolchain # None) =>
              /\ current.value # None
              /\ current.value.source = "default"
              /\ current.value.platform = toolchain
        /\ (~pinned /\ toolchain = None) => current.value = None

\* the merge case with a user default whose node and npm differ from the pin's
C2_Witness ==
    /\ current.done
    /\ current.value # None
    /\ current.value.source = "merged"
    /\ toolchain # None
    /\ toolchain.yarn # None
    /\ toolchain.npm # project.platform.npm
    /\ toolchain.node_runtime # project.platform.node_runtime

(***************************************************************************)
(* C3: shim dispatch for a non-runtime name N, first match wins: if N is   *)
(* in the project's direct-dependency bin map, <project>/node_modules/     *)
(* .bin/N is executed with the project platform's PATH, even when a user   *)
(* BinConfig for N exists; else if N has a user BinConfig, the file under  *)
(* its package image is executed under the platform recorded in the        *)
(* config; otherwise dispatch fails with BinaryNotFound and no child is    *)
(* spawned.                                                                *)
(***************************************************************************)
C3_DispatchTable ==
    (sh_name \notin RuntimeShims /\ pc \in { "built", "failed", "running" }) =>
        IF project # None /\ sh_name \in direct_bins
        THEN project.platform # None =>
               /\ sh_cmd # None
               /\ sh_cmd.exe = << "work", "project", "node_modules", ".bin", sh_name >>
               /\ sh_cmd.path_of = project.platform
        ELSE IF bin_configs[sh_name] # None
        THEN /\ sh_cmd # None
             /\ sh_cmd.exe = package_image_dir(bin_configs[sh_name].package,
                                   VersionStr(bin_configs[sh_name].version))
                             \o << bin_configs[sh_name].path >>
             /\ sh_cmd.path_of.node_runtime = bin_configs[sh_name].platform.node_runtime
        ELSE \* BinaryNotFound; the name of the error kind is not compared
             /\ sh_err # ""
             /\ sh_cmd = None
             /\ pc # "running"

(***************************************************************************)
(* C4 as stated: a fetch interrupted before the rename leaves a temporary  *)
(* directory under tmp and nothing else, so that the rest of the disk is   *)
(* as the fetch found it, and no image directory is ever seen holding part *)
(* of its content.                                                         *)
(***************************************************************************)
C4_OnlyTempResidue ==
    /\ \A s \in Sessions :
          (sess[s].out = "crashed" /\ ~sess[s].renamed) => Disk = sess[s].snap
    /\ \A d \in PkgDistros : pkg_image[d] # "partial"
    /\ \A v \in FetchYarnVersions : yarn_image[v] # "partial"

(***************************************************************************)
(* C4: as long as a command has not performed the rename, whether it is    *)
(* running, failed or was interrupted, the disk differs from the disk it   *)
(* started on at most in the tmp directory, in the cached tarball of its   *)
(* distro and in the image directory of its distro; that image directory   *)
(* is as found or removed, in whole or in part, and is never given content *)
(* it did not have: it is populated only by the rename.                    *)
(***************************************************************************)
C4_ResidueBeforeRename ==
    \A s \in Sessions :
        (sess[s].snap # None /\ ~sess[s].renamed) =>
            LET snap == sess[s].snap
                job == sess[s].job
                mine(tool, name, version) ==
                    job.tool = tool /\ job.name = name /\ job.version = version
            IN  /\ pkg_shasum = snap.pkg_shasum
                /\ pkg_config = snap.pkg_config
                /\ bin_configs = snap.bin_configs
                /\ shims = snap.shims
                /\ yarn_shasum = snap.yarn_shasum
                /\ \A d \in PkgDistros :
                      IF mine("package", d[1], d[2])
                      THEN \/ pkg_image[d] = snap.pkg_image[d]
                           \/ snap.pkg_image[d] # "absent"
                              /\ pkg_image[d] \in { "absent", "partial" }
                      ELSE /\ pkg_image[d] = snap.pkg_image[d]
                           /\ pkg_tarball[d] = snap.pkg_tarball[d]
                /\ \A v \in FetchYarnVersions :
                      IF mine("yarn", "yarn", v)
                      THEN \/ yarn_image[v] = snap.yarn_image[v]
                           \/ snap.yarn_image[v] # "absent"
                              /\ yarn_image[v] \in { "absent", "partial" }
                      ELSE /\ yarn_image[v] = snap.yarn_image[v]
                           /\ yarn_tarball[v] = snap.yarn_tarball[v]

\* a package fetch interrupted while it removed the image directory a former
\* fetch had left, after it downloaded the tarball again
C4_Witness ==
    \E s \in Sessions :
        /\ sess[s].out = "crashed"
        /\ ~sess[s].renamed
        /\ sess[s].job.tool = "package"
        /\ tmp_left > 0
        /\ sess[s].snap.pkg_image[Distro(s)] = "whole"
        /\ pkg_image[Distro(s)] = "partial"
        /\ pkg_tarball[Distro(s)] # sess[s].snap.pkg_tarball[Distro(s)]

(***************************************************************************)
(* C5: the shasum sidecar, the package config and the bin configs (with    *)
(* their shims) are written only by a command whose rename has succeeded;  *)
(* when the rename fails, the command ends with none of them written.      *)
(***************************************************************************)
C5_ConfigAfterRename ==
    /\ [][ (\/ pkg_shasum' # pkg_shasum
            \/ pkg_config' # pkg_config
            \/ bin_configs' # bin_configs
            \/ shims' # shims)
           => \E s \in Sessions :
                 /\ sess[s].renamed
                 /\ sess[s].pc \in { "write_shasum", "write_package_config",
                                     "write_bins" } ]_vars
    /\ [](\A s \in Sessions :
             sess[s].res = "SetupToolImageError" =>
                 /\ pkg_shasum = sess[s].snap.pkg_shasum
                 /\ pkg_config = sess[s].snap.pkg_config
                 /\ bin_configs = sess[s].snap.bin_configs
                 /\ shims = sess[s].snap.shims)

\* an installation that wrote the sidecar, the package config and the bin
\* configs after its rename
C5_Witness ==
    \E s \in Sessions :
        /\ sess[s].out = "ok"
        /\ sess[s].res = "Now"
        /\ sess[s].job.tool = "package"
        /\ sess[s].renamed
        /\ pkg_shasum[Distro(s)] # sess[s].snap.pkg_shasum[Distro(s)]
        /\ pkg_config[sess[s].job.name] # sess[s].snap.pkg_config[sess[s].job.name]
        /\ bin_configs # sess[s].snap.bin_configs

(***************************************************************************)
(* C6: in every execution that launches a tool, ensure_node completes      *)
(* before ensure_yarn starts, both complete before checkout returns an     *)
(* Image, checkout completes before path() is called, and path()           *)
(* completes before the child is spawned; if ensure_node fails,            *)
(* ensure_yarn is not attempted and no Image is returned.                  *)
(***************************************************************************)
Before(a, b) ==
    \A i \in DOMAIN events :
        events[i] = b => \E j \in 1..(i - 1) : events[j] = a

Occurs(a) == \E i \in DOMAIN events : events[i] = a

C6_LaunchOrder ==
    /\ Before("ensure_node", "ensure_yarn")
    /\ Before("ensure_node", "ensure_yarn_failed")
    /\ Before("ensure_node", "checkout")
    /\ (Occurs("checkout") /\ sh_image.yarn # None) => Before("ensure_yarn", "checkout")
    /\ Before("checkout", "path")
    /\ Before("path", "spawn")
    /\ Occurs("ensure_node_failed") =>
          /\ ~Occurs("ensure_yarn") /\ ~Occurs("ensure_yarn_failed")
          /\ ~Occurs("checkout") /\ sh_image = None

(***************************************************************************)
(* C7: whenever checkout returns an Image, every version the Image         *)
(* references has a materialized image directory: the directory for        *)
(* (node runtime, effective npm) exists, and the yarn image directory      *)
(* exists when the Image has a yarn version; with npm pinned explicitly    *)
(* and with npm taken from the node bundle.                                *)
(***************************************************************************)
C7_ImageMaterialized ==
    sh_image # None =>
        /\ << sh_image.node.runtime, sh_image.node.npm >> \in node_images
        /\ sh_image.yarn # None => sh_image.yarn \in yarn_images

C9_GoodCacheUsed ==
    \A s \in Sessions :
        (sess[s].snap # None /\ sess[s].archive # "none") =>
            LET snap == sess[s].snap
                tarball == IF sess[s].job.tool = "package"
                           THEN snap.pkg_tarball[Distro(s)]
                           ELSE snap.yarn_tarball[sess[s].job.version]
                shasum == IF sess[s].job.tool = "package"
                          THEN snap.pkg_shasum[Distro(s)]
                          ELSE snap.yarn_shasum[sess[s].job.version]
            IN  (tarball # "absent" /\ shasum # None /\ sha1(tarball) = shasum)
                => (sess[s].archive = "cached" /\ ~sess[s].net)

(***************************************************************************)
(* C10: fetch returns Already or Installed, and then without any network   *)
(* I/O, exactly when the image directory exists and, for a package, the    *)
(* package config holds this version; and no download has been started     *)
(* when that check is made.                                                *)
(***************************************************************************)
C10_InstalledWithoutNetwork ==
    \A s \in Sessions :
        /\ sess[s].pc \in { "is_installed", "yarn_fetch" } => ~sess[s].net
        /\ sess[s].res \in { "Already", "Installed" } => ~sess[s].net
        /\ sess[s].res \in { "Already", "Installed", "Now" } =>
              LET snap == sess[s].snap
                  name == sess[s].job.name
                  version == sess[s].job.version
              IN  sess[s].res \in { "Already", "Installed" }
                  <=> IF sess[s].job.tool = "package"
                      THEN /\ snap.pkg_image[ << name, version >> ] = "whole"
                           /\ snap.pkg_config[name] # None
                           /\ snap.pkg_config[name].version = version
                      ELSE snap.yarn_image[version] = "whole"

(***************************************************************************)
(* C11: when a package install finds the image directory of its version    *)
(* present with no package config (the orphan a crash between the rename   *)
(* and the config writes leaves), fetch does not report Installed; and an  *)
(* install that runs to its end has renamed a fresh unpack over the orphan *)
(* and leaves the image directory, the package config and the bin config   *)
(* and shim of every binary of the package in place.                       *)
(***************************************************************************)
C11_OrphanReplaced ==
    \A s \in Sessions :
        ( /\ sess[s].snap # None
          /\ sess[s].job.tool = "package"
          /\ sess[s].snap.pkg_image[Distro(s)] = "whole"
          /\ sess[s].snap.pkg_config[sess[s].job.name] = None ) =>
            LET name == sess[s].job.name
                version == sess[s].job.version
            IN  /\ sess[s].res # "Installed"
                /\ sess[s].out = "ok" =>
                      /\ sess[s].renamed
                      /\ pkg_image[ << name, version >> ] = "whole"
                      /\ pkg_config[name] # None
                      /\ pkg_config[name].version = version
                      /\ \A b \in manifest_bins(name, version) :
                            /\ bin_configs[b] # None
                            /\ bin_configs[b].package = name
                            /\ bin_configs[b].version = version
                            /\ b \in shims

\* an install that found the orphan of an interrupted install and completed
C11_Witness ==
    \E s \in Sessions :
        /\ sess[s].snap # None
        /\ sess[s].job.tool = "package"
        /\ sess[s].snap.pkg_image[Distro(s)] = "whole"
        /\ sess[s].snap.pkg_config[sess[s].job.name] = None
        /\ sess[s].snap.bin_configs = [ b \in PkgBinNames |-> None ]
        /\ sess[s].out = "ok"
        /\ pkg_config[sess[s].job.name] # None

C13_BinConfigListed ==
    (\A s \in FetchSessions : sess[s].pc = "idle" /\ sess[s].out # "crashed") =>
        \A b \in PkgBinNames :
            bin_configs[b] # None =>
                /\ pkg_config[bin_configs[b].package] # None
                /\ b \in pkg_config[bin_configs[b].package].bins

\* the install of session s began while a bin its package declares had a bin
\* config owned by another package
C14_Conflict(s) ==
    /\ sess[s].snap # None
    /\ sess[s].job.tool = "package"
    /\ \E b \in manifest_bins(sess[s].job.name, sess[s].job.version) :
          /\ sess[s].snap.bin_configs[b] # None
          /\ sess[s].snap.bin_configs[b].package # sess[s].job.name

\* C14: an install of P that declares a bin owned by another package Q never
\* gets past the conflict check: unless an earlier step of the fetch failed
\* it ends with BinaryAlreadyInstalled, it never succeeds, and every bin
\* config, shim and package config is as it was when the install began; and
\* no step ever hands an existing bin config over to another package.
C14_BinaryAlreadyInstalled ==
    /\ [] \A s \in FetchSessions :
            C14_Conflict(s) =>
                /\ sess[s].pc \notin { "install", "write_package_config", "write_bins" }
                /\ sess[s].res \notin { "Installed", "Now", "Already" }
                /\ sess[s].out # "ok"
                /\ sess[s].out = "error" =>
                      sess[s].res \in { "BinaryAlreadyInstalled",
                                        "DownloadToolNetworkError", "UnpackArchiveError",
                                        "PackageUnpackError", "SetupToolImageError",
                                        "WritePackageShasumError" }
                /\ (sess[s].out = "error" /\ sess[s].renamed) =>
                      sess[s].res \in { "BinaryAlreadyInstalled", "WritePackageShasumError" }
                /\ bin_configs = sess[s].snap.bin_configs
                /\ shims = sess[s].snap.shims
                /\ pkg_config = sess[s].snap.pkg_config
    /\ [][ \A b \in PkgBinNames :
              (bin_configs[b] # None /\ bin_configs'[b] # None) =>
                  bin_configs'[b].package = bin_configs[b].package ]_vars

\* moo owns cowthink with its shim and package config in place, and an
\* install of cowsay 1.4.0, which declares cowthink, has ended with
\* BinaryAlreadyInstalled after the image was renamed into place
C14_Witness ==
    \E s \in FetchSessions :
        /\ C14_Conflict(s)
        /\ sess[s].pc = "idle"
        /\ sess[s].res = "BinaryAlreadyInstalled"
        /\ sess[s].renamed
        /\ \E b \in manifest_bins(sess[s].job.name, sess[s].job.version) :
              /\ bin_configs[b] # None
              /\ bin_configs[b].package # sess[s].job.name
              /\ b \in shims
              /\ pkg_config[bin_configs[b].package] # None

\* C15: in every reachable on-disk state, the shasum sidecar of a package
\* distro exists if and only if the tarball on disk is present and its SHA-1
\* equals the content of the sidecar.
C15_SidecarIffVerified ==
    \A d \in PkgDistros :
        pkg_shasum[d] # None <=>
            ( pkg_tarball[d] # "absent" /\ sha1(pkg_tarball[d]) = pkg_shasum[d] )

\* the versions of the index that satisfy the requirement
C16_Satisfying ==
    { raw_versions[i] : i \in { k \in DOMAIN raw_versions :
                                  matches(matching, raw_versions[k]) } }

C17_Effective(t, f) == IF hooks[t] = None THEN None ELSE hooks[t][f]

\* the sources read so far that define the field for the tool
C17_Definers(t, f) ==
    { i \in 1..hooks_read :
        hook_sources[i][t] # None /\ hook_sources[i][t][f] # None }

\* C17: for every tool and every hook field, the effective resolver is the
\* one of the highest-precedence source that defines that field (project,
\* then the workspaces reached through extends, then the user file); a field
\* a higher source leaves unset falls through to the next source, per tool
\* and per field.
C17_FirstSourceWins ==
    hooks # None =>
        \A t \in HookTools, f \in HookFields :
            IF C17_Definers(t, f) = {}
            THEN C17_Effective(t, f) = None
            ELSE \E i \in C17_Definers(t, f) :
                    /\ \A j \in C17_Definers(t, f) : i <= j
                    /\ C17_Effective(t, f) = hook_from(i)
                    /\ C17_Effective(t, f) = hook_sources[i][t][f]

\* project, one workspace and the user file are merged: the project sets
\* only yarn.distro, the workspace sets yarn.index, and node is named by the
\* user file alone; each effective resolver comes from a different source
C17_Witness ==
    /\ hooks # None
    /\ Len(hook_sources) = 3
    /\ hooks_read = 3
    /\ hook_sources[1]["node"] = None
    /\ hook_sources[1]["yarn"] # None
    /\ hook_sources[1]["yarn"]["index"] = None
    /\ hook_sources[3]["yarn"] # None
    /\ hook_sources[3]["yarn"]["distro"] # None
    /\ C17_Effective("yarn", "distro") = hook_from(1)
    /\ C17_Effective("yarn", "index") = hook_from(2)
    /\ C17_Effective("node", "distro") = hook_from(3)

\* the directory lies inside a node_modules tree: a directory above it is
\* named node_modules
C18_InDependencyTree(d) ==
    \E n \in 1..(Len(d) - 1) : d[n] = "node_modules"

\* the directories on the way from the start to the root that contain a
\* manifest and are not inside a dependency subtree
C18_Roots ==
    { d \in Ancestors(base_dir) : d \in package_jsons /\ ~ C18_InDependencyTree(d) }

\* C18: project discovery returns the nearest directory on the path from
\* the start to the file system root that contains a manifest and is not
\* inside a dependency subtree, or none if there is no such directory; the
\* root returned is never inside a node_modules tree.
C18_NearestProjectRoot ==
    for_dir # Pending =>
        IF C18_Roots = {}
        THEN ~ for_dir.value.some
        ELSE /\ for_dir.value.some
             /\ for_dir.value.project_root \in C18_Roots
             /\ \A d \in C18_Roots : Len(d) <= Len(for_dir.value.project_root)

\* C19: npx under a platform whose effective npm is below 5.2.0 fails with
\* NpxNotAvailable, no child is spawned and the process exits with code 127;
\* with an effective npm of 5.2.0 or higher the npx command is built with
\* the PATH of the image.
C19_NpxNotAvailable ==
    (sh_name = "npx" /\ sh_image # None) =>
        IF VersionGE(sh_image.node.npm, required_npm)
        THEN pc \in { "built", "running" } =>
                /\ sh_cmd # None
                /\ sh_cmd.exe = << "npx" >>
                /\ sh_cmd.path = path(sh_image, old_path)
        ELSE /\ pc # "npx_image" =>
                /\ sh_err = "NpxNotAvailable"
                /\ sh_cmd = None
                /\ ~ Occurs("spawn")
                /\ child_status = Pending
             /\ exit_code # Pending => exit_code.value = 127

\* C20: when the shim has launched a child, the process exits 0 when the
\* child succeeds, with exactly the child's code when that is not zero, and
\* with 1 when the child ended without a code; the matching end event is in
\* the event log when the process exits, and nothing is added after it.
C20_ChildStatusSurfaced ==
    /\ child_status # Pending => pc \in { "status", "exit", "exited" }
    /\ (child_status # Pending /\ pc \in { "exit", "exited" }) =>
          LET status == child_status.value
              code == IF status.exited THEN status.code ELSE 1
          IN  event_log = << [ kind |-> "start" ],
                             IF code = 0
                             THEN [ kind |-> "end", exit_code |-> 0 ]
                             ELSE [ kind |-> "tool_end", exit_code |-> code ] >>
    /\ (child_status # Pending /\ exit_code # Pending) =>
          LET status == child_status.value IN
          /\ pc = "exited"
          /\ (status.exited /\ status.code = 0) => exit_code.value = 0
          /\ (status.exited /\ status.code # 0) => exit_code.value = status.code
          /\ ~ status.exited => exit_code.value = 1
    /\ (child_status # Pending /\ pc = "status") => exit_code = Pending

\* a child that exited with code 3 has been surfaced as exit code 3
C20_Witness ==
    /\ child_status # Pending
    /\ child_status.value.exited
    /\ child_status.value.code = 3
    /\ exit_code = Done(3)
    /\ Occurs("spawn")

\* C21: when the invocation fails with an error before or instead of running
\* a child, the process exits with the exit code that the table assigns to
\* the kind of that error (4 for no version match, 5 for network, 127 for
\* executable not found), not with one fixed code for every kind.
C21_ExitCodeOfErrorKind ==
    (sh_err # "" /\ exit_code # Pending) =>
        exit_code.value = error_exit_code(sh_err)

\* C22: in a project whose manifest has no pinned node, pinning yarn or npm
\* (once the version has been resolved) fails with NoPinnedNodeVersion, the
\* process exits with code 8, and the manifest file is unchanged.
C22_PinWithoutNode ==
    (/\ pin_tool \in { "yarn", "npm" }
     /\ node_str(original_json) = None
     /\ pin_err # "DownloadToolNetworkError") =>
        /\ package_json = original_json
        /\ pin_pc \notin { "pinned" }
        /\ pin_pc = "exited" =>
              /\ pin_err = "NoPinnedNodeVersion"
              /\ pin_exit = Done(8)

\* the field of the pinned block of a manifest, None when it is not there
C23_Field(file, f) ==
    IF file.toolchain = None THEN None ELSE file.toolchain[f]

\* C23: pinning one tool changes only that tool's field of the pinned block:
\* pinning node leaves npm, yarn and extends as they were, pinning yarn
\* leaves node, npm and extends as they were, and every other top-level key
\* of the manifest keeps its value.
C23_PinChangesOneField ==
    /\ package_json.name = original_json.name
    /\ package_json.dependencies = original_json.dependencies
    /\ \A f \in { "node", "npm", "yarn", "extends" } :
          f # pin_tool => C23_Field(package_json, f) = C23_Field(original_json, f)

\* C24: a rewrite of the pinned block keeps the indentation unit of the
\* manifest and its trailing newline: a manifest that ended with a newline
\* before the pin ends with one after it.
C24_PinKeepsLayout ==
    pin_pc \in { "pinned", "exited" } =>
        /\ package_json.indent = original_json.indent
        /\ original_json.trailing_newline => package_json.trailing_newline

\* C25: within one session, whatever the sequence of ensure_node and
\* ensure_yarn calls, each (tool, version) is installed at most once: a call
\* for a version that is in the inventory fetches nothing, and after a call
\* that succeeded the version is in the inventory and every later call for
\* it does nothing.
C25_AtMostOneInstall ==
    /\ \A tool \in EnsureTools : \A version \in EnsureVersions(tool) :
          Cardinality({ i \in DOMAIN en_log :
                          /\ en_log[i].tool = tool
                          /\ en_log[i].version = version
                          /\ en_log[i].did = "installed" }) <= 1
    /\ \A i \in DOMAIN en_log :
          /\ en_log[i].had => en_log[i].did = "nothing"
          /\ en_log[i].did # "failed" =>
                /\ en_log[i].version \in en_inventory[en_log[i].tool]
                /\ \A j \in DOMAIN en_log :
                      (/\ j > i
                       /\ en_log[j].tool = en_log[i].tool
                       /\ en_log[j].version = en_log[i].version) =>
                          en_log[j].did = "nothing"

\* a version was installed by one call and a later call for it did nothing
C25_Witness ==
    \E i, j \in DOMAIN en_log :
        /\ i < j
        /\ en_log[i].tool = en_log[j].tool
        /\ en_log[i].version = en_log[j].version
        /\ en_log[i].did = "installed"
        /\ en_log[j].did = "nothing"

\* everything the install of session s is to leave behind is there
C26_Installed(s) ==
    LET name == sess[s].job.name
        version == sess[s].job.version
    IN  /\ pkg_image[ << name, version >> ] = "whole"
        /\ pkg_config[name] # None
        /\ pkg_config[name].version = version
        /\ \A b \in manifest_bins(name, version) :
              /\ bin_configs[b] # None
              /\ bin_configs[b].package = name
              /\ b \in shims

\* C26: two sessions that run at the same time and install different
\* packages do not interfere, whatever the interleaving and also when both
\* packages declare the same bin name: once both have ended, neither was
\* refused because of the other, each one that installed has its image, its
\* package config and its bin configs in place, and every bin a package
\* config lists has a bin config owned by that package.
C26_DisjointSessionsSafe ==
    (\A s \in Sessions : sess[s].job # None /\ sess[s].pc = "idle") =>
        /\ \A s \in Sessions :
              /\ sess[s].res # "BinaryAlreadyInstalled"
              /\ sess[s].out = "ok" => C26_Installed(s)
        /\ \A n \in Packages :
              pkg_config[n] # None =>
                 \A b \in pkg_config[n].bins :
                    /\ bin_configs[b] # None
                    /\ bin_configs[b].package = n

\* C27: after an uninstall of a package has returned success, from whatever
\* state it started (package config present, package config missing with
\* orphaned bin configs, several versions installed over time): the package
\* has no package config, no bin config names it as its package, no bin it
\* owned has a shim, none of its image directories exists, and the bin
\* configs and shims owned by other packages are as they were.
C27_UninstallRemovesAll ==
    \A s \in FetchSessions :
        (sess[s].pc = "idle" /\ sess[s].res = "Uninstalled") =>
            LET name == sess[s].job.name
                before == sess[s].snap
            IN  /\ pkg_config[name] = None
                /\ \A b \in PkgBinNames :
                      /\ bin_configs[b] # None => bin_configs[b].package # name
                      /\ (/\ before.bin_configs[b] # None
                          /\ before.bin_configs[b].package = name) => b \notin shims
                      /\ (/\ before.bin_configs[b] # None
                          /\ before.bin_configs[b].package # name) =>
                             /\ bin_configs[b] = before.bin_configs[b]
                             /\ (b \in before.shims <=> b \in shims)
                /\ \A d \in PkgDistros : d[1] = name => pkg_image[d] = "absent"

\* C28: in a package fetch the unpacked root is located before the image
\* directory of the version is cleared: when a fetch has failed with
\* PackageUnpackError, the image directory of that package version is as it
\* was when the fetch began.
C28_UnpackErrorKeepsImage ==
    \A s \in FetchSessions :
        (/\ sess[s].pc = "idle"
         /\ sess[s].job # None
         /\ sess[s].res = "PackageUnpackError") =>
            pkg_image[Distro(s)] = sess[s].snap.pkg_image[Distro(s)]

\* C29: whenever a fetch finds is_installed() true for its package version,
\* after any sequence of installs that may have been interrupted or have
\* failed at any step, the image directory of the version exists and every
\* bin the package config lists has a bin config and a shim.
C29_InstalledMeansComplete ==
    \A s \in FetchSessions :
        (/\ sess[s].pc = "is_installed"
         /\ is_installed(sess[s].job.name, sess[s].job.version)) =>
            /\ pkg_image[Distro(s)] = "whole"
            /\ \A b \in pkg_config[sess[s].job.name].bins :
                  /\ bin_configs[b] # None
                  /\ b \in shims

\* C30: after ensure_jetson_dirs_exist has returned success, every directory
\* of the layout it manages exists, whatever the file system was like before
\* the call, also when the home directory existed and some of the
\* directories below it did not.
C30_LayoutDirsExist ==
    dirs_result = Done("Ok") =>
        \A i \in DOMAIN ManagedDirs : ManagedDirs[i] \in fs_dirs

=============================================================================
